---- MODULE Spec2Model ----
(***************************************************************************)
(* Model of the GenericDataChart component                                  *)
(* (src/src/components/GenericDataChart.tsx): the data load, the            *)
(* configuration reducer, the derived-column engine and the                 *)
(* filter -> group -> sort -> limit pipeline with the chart dispatch.       *)
(*                                                                          *)
(* JavaScript values are records [k, n, d, s]:                              *)
(*   k = "num"   the rational n/d (d > 0, reduced); doubles are modelled    *)
(*               exactly as rationals, which is faithful for the small      *)
(*               integers and quotients used here                           *)
(*   k = "str"   the string s                                               *)
(*   k = "null"  null (an empty CSV cell under dynamicTyping)               *)
(*   k = "undef" undefined (a key that the row does not have)               *)
(*   k = "nan"   NaN                                                        *)
(* A row is a function from the keys it has to values.                      *)
(***************************************************************************)
EXTENDS Integers, Sequences, FiniteSets, TLC

(***************************************************************************)
(* Strings                                                                  *)
(***************************************************************************)
Upper == "ABCDEFGHIJKLMNOPQRSTUVWXYZ"

Lower == "abcdefghijklmnopqrstuvwxyz"

Digits == "0123456789"

\* the characters of the model's strings in UTF-16 code unit order
CodeOrder == " #-./0123456789ABCDEFGHIJKLMNOPQRSTUVWXYZ_abcdefghijklmnopqrstuvwxyz"

\* the same characters in the order of the root collation, letters caseless
CollationOrder == " _-./#0123456789abcdefghijklmnopqrstuvwxyz"

RECURSIVE IndexOf(_, _, _)
IndexOf(c, alphabet, i) ==
  IF i > Len(alphabet) THEN 0
  ELSE IF SubSeq(alphabet, i, i) = c THEN i
  ELSE IndexOf(c, alphabet, i + 1)

\* the characters of a string
Chars(s) == {SubSeq(s, i, i) : i \in 1..Len(s)}

UpperChars == Chars(Upper)

WordChars == Chars(Upper) \cup Chars(Lower) \cup Chars(Digits) \cup {"_"}

LowerOf == [c \in UpperChars |-> SubSeq(Lower, IndexOf(c, Upper, 1), IndexOf(c, Upper, 1))]

CodeRank == [c \in Chars(CodeOrder) |-> IndexOf(c, CodeOrder, 1)]

CollationRank == [c \in Chars(CollationOrder) |-> IndexOf(c, CollationOrder, 1)]

ToLowerChar(c) == IF c \in UpperChars THEN LowerOf[c] ELSE c

\* \s of a regular expression
IsSpace(c) == c \in {" ", "\t"}

\* \w of a regular expression
IsWord(c) == c \in WordChars

RECURSIVE TrimStart(_)
TrimStart(s) ==
  IF s = "" THEN ""
  ELSE IF IsSpace(Head(s)) THEN TrimStart(Tail(s)) ELSE s

RECURSIVE TrimEnd(_)
TrimEnd(s) ==
  IF s = "" THEN ""
  ELSE IF IsSpace(SubSeq(s, Len(s), Len(s)))
       THEN TrimEnd(SubSeq(s, 1, Len(s) - 1)) ELSE s

\* String.prototype.trim
Trim(s) == TrimEnd(TrimStart(s))

\* column.replace(/\s/g, '').toLowerCase(): the hyphen stays
RECURSIVE normalizeKeepingHyphens(_)
normalizeKeepingHyphens(column) ==
  IF column = "" THEN ""
  ELSE LET c == Head(column) IN
       IF IsSpace(c) THEN normalizeKeepingHyphens(Tail(column))
       ELSE ToLowerChar(c) \o normalizeKeepingHyphens(Tail(column))

\* column.replace(/[\s-]/g, '').toLowerCase()
RECURSIVE normalizeColumnName(_)
normalizeColumnName(column) ==
  IF column = "" THEN ""
  ELSE LET c == Head(column) IN
       IF IsSpace(c) \/ c = "-" THEN normalizeColumnName(Tail(column))
       ELSE ToLowerChar(c) \o normalizeColumnName(Tail(column))

\* s.replace(/[^\w\s-]/g, '')
RECURSIVE StripNonWord(_)
StripNonWord(s) ==
  IF s = "" THEN ""
  ELSE LET c == Head(s) IN
       IF IsWord(c) \/ IsSpace(c) \/ c = "-" THEN c \o StripNonWord(Tail(s))
       ELSE StripNonWord(Tail(s))

\* comparison of two strings character by character by the rank of the
\* characters: -1, 0 or 1
RECURSIVE CompareBy(_, _, _)
CompareBy(a, b, rank) ==
  IF a = "" /\ b = "" THEN 0
  ELSE IF a = "" THEN -1
  ELSE IF b = "" THEN 1
  ELSE LET x == rank[Head(a)]
           y == rank[Head(b)]
       IN IF x < y THEN -1
          ELSE IF x > y THEN 1
          ELSE CompareBy(Tail(a), Tail(b), rank)

RECURSIVE LowerCase(_)
LowerCase(s) == IF s = "" THEN "" ELSE ToLowerChar(Head(s)) \o LowerCase(Tail(s))

\* the default comparison of Array.prototype.sort on strings
CodeUnitCompare(a, b) == CompareBy(a, b, CodeRank)

\* a.localeCompare(b, undefined, {numeric: true}): collation order, letters
\* caseless first and lower case before upper case on a tie (the model's
\* strings hold no runs of several digits, so the numeric option is moot)
localeCompare(a, b) ==
  LET c == CompareBy(LowerCase(a), LowerCase(b), CollationRank)
  IN IF c # 0 THEN c ELSE -CodeUnitCompare(a, b)

(***************************************************************************)
(* Values                                                                   *)
(***************************************************************************)
Abs(x) == IF x < 0 THEN -x ELSE x

RECURSIVE Gcd(_, _)
Gcd(a, b) == IF b = 0 THEN a ELSE Gcd(b, a % b)

\* the number n/d, d # 0
Rat(n, d) ==
  LET g == Gcd(Abs(n), Abs(d))
      sgn == IF d < 0 THEN -1 ELSE 1
  IN [k |-> "num", n |-> sgn * (n \div g), d |-> sgn * (d \div g), s |-> ""]

Num(n) == [k |-> "num", n |-> n, d |-> 1, s |-> ""]

Str(s) == [k |-> "str", n |-> 0, d |-> 1, s |-> s]

Null == [k |-> "null", n |-> 0, d |-> 1, s |-> ""]

Undef == [k |-> "undef", n |-> 0, d |-> 1, s |-> ""]

NaN == [k |-> "nan", n |-> 0, d |-> 1, s |-> ""]

\* row[key]
Get(row, key) == IF key \in DOMAIN row THEN row[key] ELSE Undef

\* typeof v === 'number'
IsNumber(v) == v.k \in {"num", "nan"}

\* typeof v === 'number' && !isNaN(v)
IsFinite(v) == v.k = "num"

\* v == null
IsNullish(v) == v.k \in {"null", "undef"}

\* the truthiness of v
Truthy(v) ==
  CASE v.k = "num" -> v.n # 0
    [] v.k = "str" -> v.s # ""
    [] OTHER -> FALSE

\* v || dflt
OrElse(v, dflt) == IF Truthy(v) THEN v ELSE dflt

\* String(v); a number that is not an integer is written n/d, which like the
\* decimal expansion is a distinct string for each distinct number
ToStr(v) ==
  CASE v.k = "num" -> IF v.d = 1 THEN ToString(v.n)
                      ELSE ToString(v.n) \o "/" \o ToString(v.d)
    [] v.k = "str" -> v.s
    [] v.k = "null" -> "null"
    [] v.k = "undef" -> "undefined"
    [] OTHER -> "NaN"

\* Number(v); the strings of a parsed dataset are not numeric (dynamicTyping
\* has turned the numeric ones into numbers), only the empty string converts
ToNumber(v) ==
  CASE v.k = "num" -> v
    [] v.k = "str" -> IF Trim(v.s) = "" THEN Num(0) ELSE NaN
    [] v.k = "null" -> Num(0)
    [] OTHER -> NaN

\* a + b
JsAdd(a, b) ==
  IF a.k = "str" \/ b.k = "str" THEN Str(ToStr(a) \o ToStr(b))
  ELSE LET x == ToNumber(a)
           y == ToNumber(b)
       IN IF x.k = "nan" \/ y.k = "nan" THEN NaN
          ELSE Rat(x.n * y.d + y.n * x.d, x.d * y.d)

\* a - b
JsSub(a, b) ==
  LET x == ToNumber(a)
      y == ToNumber(b)
  IN IF x.k = "nan" \/ y.k = "nan" THEN NaN
     ELSE Rat(x.n * y.d - y.n * x.d, x.d * y.d)

\* a * b
JsMul(a, b) ==
  LET x == ToNumber(a)
      y == ToNumber(b)
  IN IF x.k = "nan" \/ y.k = "nan" THEN NaN
     ELSE Rat(x.n * y.n, x.d * y.d)

\* a / b; the code divides only by values it has found to be non-zero, a
\* zero divisor is mapped to NaN for totality
JsDiv(a, b) ==
  LET x == ToNumber(a)
      y == ToNumber(b)
  IN IF x.k = "nan" \/ y.k = "nan" \/ y.n = 0 THEN NaN
     ELSE Rat(x.n * y.d, x.d * y.n)

\* the sign of a number: -1, 0 or 1; NaN has sign 0 (a comparator that
\* returns NaN is treated as returning 0 by Array.prototype.sort)
Sign(v) == IF v.k # "num" THEN 0 ELSE IF v.n < 0 THEN -1 ELSE IF v.n > 0 THEN 1 ELSE 0

\* a >= b, b a number
JsGte(a, b) ==
  IF a.k = "undef" THEN FALSE
  ELSE LET d == JsSub(a, b) IN d.k = "num" /\ d.n >= 0

\* a > b, b a number
JsGt(a, b) == LET d == JsSub(a, b) IN d.k = "num" /\ d.n > 0

(***************************************************************************)
(* Sequences                                                                *)
(***************************************************************************)
Range(seq) == {seq[i] : i \in 1..Len(seq)}

\* array.includes(x)
Includes(seq, x) == \E i \in 1..Len(seq) : seq[i] = x

\* array.filter(x => x !== y)
RECURSIVE Without(_, _)
Without(seq, y) ==
  IF seq = <<>> THEN <<>>
  ELSE IF Head(seq) = y THEN Without(Tail(seq), y)
  ELSE <<Head(seq)>> \o Without(Tail(seq), y)

\* array.slice(0, n)
Slice(seq, n) == IF n <= 0 THEN <<>> ELSE SubSeq(seq, 1, IF n < Len(seq) THEN n ELSE Len(seq))

\* array.reduce((sum, x) => sum + x, 0) over JavaScript values
RECURSIVE SumFrom(_, _)
SumFrom(acc, vals) ==
  IF vals = <<>> THEN acc ELSE SumFrom(JsAdd(acc, Head(vals)), Tail(vals))

\* the empty object {}
EmptyMap == [x \in {} |-> Null]

\* the value null of a nullable string field of the configuration
Nil == "<null>"

(***************************************************************************)
(* Bounds and inputs                                                        *)
(***************************************************************************)
\* the number of user operations and loads explored from the mounted component
MaxSteps == 2

\* the number of calculated columns defined at the same time
MaxCalculated == 1

\* the props of the embedding (src/src/App.tsx passes no defaultXAxis and no
\* defaultYColumns); defaultDisplayCount is a prop, here smaller than the
\* datasets so that the display limit cuts rows
defaultYColumns == <<>>

defaultDisplayCount == 2

\* the values of the defaultChartType prop: that of src/src/App.tsx and the
\* 100% stacked bar chart
ChartTypeProps == {"stackedBar", "stackedBar100"}

initialFilters == EmptyMap

\* the <option> values of the "Show Top" select
DisplayCountOptions == {10, 20, 50, 100, 200, 500, 1000}

\* the largest "Show Top" option the model selects (every option is at least
\* the size of the datasets, so they all show every row)
MaxDisplayCount == 10

\* the <option> values of the chart type select
availableChartTypes ==
  {"stackedBar", "stackedBar100", "groupedBar", "line", "area", "scatter", "composed"}

\* Results of Papa.parse(text, {header: true, dynamicTyping: true}): the header
\* fields and one record per line, an empty cell being null.
SalesData ==
  [fields |-> <<"cat", "v">>,
   rows |-> << [cat |-> Str("a"), v |-> Num(5)],
               [cat |-> Str("b"), v |-> Num(15)],
               [cat |-> Str("a"), v |-> Num(-3)] >>]

RatioData ==
  [fields |-> <<"cat", "A", "B">>,
   rows |-> << [cat |-> Str("g"), A |-> Num(10), B |-> Num(0)],
               [cat |-> Str("g"), A |-> Num(0), B |-> Num(10)] >>]

\* a sparse column (an empty cell) and a column that mixes numbers and text
SparseData ==
  [fields |-> <<"Unit Price", "qty">>,
   rows |-> << ("Unit Price" :> Num(5)) @@ ("qty" :> Num(2)),
               ("Unit Price" :> Null) @@ ("qty" :> Str("-")),
               ("Unit Price" :> Num(10)) @@ ("qty" :> Num(3)) >>]

Datasets == {SalesData, RatioData, SparseData}

(***************************************************************************)
(* Column classifier and data load                                          *)
(***************************************************************************)
\* val !== undefined && val !== null && val !== ''
NonEmpty(v) == ~IsNullish(v) /\ v # Str("")

\* rawData.map(row => row[column]).filter(NonEmpty)
RECURSIVE ColumnValues(_, _)
ColumnValues(rows, column) ==
  IF rows = <<>> THEN <<>>
  ELSE LET v == Get(Head(rows), column)
       IN (IF NonEmpty(v) THEN <<v>> ELSE <<>>) \o ColumnValues(Tail(rows), column)

\* a classifier whose second test admits 20 unique values
isColumnCategoricalUpTo20(rows, column) ==
  IF Len(rows) = 0 THEN FALSE
  ELSE LET values == ColumnValues(rows, column)
           uniqueValues == Range(values)
       IN \/ \E i \in 1..Len(values) : values[i].k = "str" /\ Trim(values[i].s) # ""
          \/ /\ Cardinality(uniqueValues) <= 20
             /\ \E i \in 1..Len(values) : ~IsNumber(values[i])
          \/ /\ Cardinality(uniqueValues) > 1
             /\ 10 * Cardinality(uniqueValues) < Len(values)
             /\ Cardinality(uniqueValues) < 50

isColumnCategorical(rows, column) ==
  IF Len(rows) = 0 THEN FALSE
  ELSE LET values == ColumnValues(rows, column)
           uniqueValues == Range(values)
           hasStringValues ==
             \E i \in 1..Len(values) : values[i].k = "str" /\ Trim(values[i].s) # ""
       IN \/ hasStringValues
          \/ /\ Cardinality(uniqueValues) < 20
             /\ \E i \in 1..Len(values) : ~IsNumber(values[i])
          \/ /\ Cardinality(uniqueValues) > 1
             /\ Len(values) > 0
             /\ 10 * Cardinality(uniqueValues) < Len(values)
             /\ Cardinality(uniqueValues) < 50

\* insertion of a string into a list sorted by code units, without duplicates
RECURSIVE InsertSorted(_, _)
InsertSorted(seq, s) ==
  IF seq = <<>> THEN <<s>>
  ELSE LET c == CodeUnitCompare(s, Head(seq))
       IN IF c = 0 THEN seq
          ELSE IF c < 0 THEN <<s>> \o seq
          ELSE <<Head(seq)>> \o InsertSorted(Tail(seq), s)

\* Array.from(new Set(values)).map(v => String(v).trim()).filter(v => v !== '').sort()
\* (the display of equal strings keeps duplicates apart only by value, and
\* two values with the same text are listed twice by the code; the datasets
\* hold no such pair)
RECURSIVE UniqueSorted(_)
UniqueSorted(values) ==
  IF values = <<>> THEN <<>>
  ELSE LET s == Trim(ToStr(Head(values)))
           rest == UniqueSorted(Tail(values))
       IN IF s = "" THEN rest ELSE InsertSorted(rest, s)

\* Math.min(...vals) and Math.max(...vals) of numbers, vals not empty
MinOf(vals) ==
  CHOOSE m \in Range(vals) : \A v \in Range(vals) : Sign(JsSub(m, v)) <= 0

MaxOf(vals) ==
  CHOOSE m \in Range(vals) : \A v \in Range(vals) : Sign(JsSub(m, v)) >= 0

\* columnValues.filter(val => typeof val === 'number' && !isNaN(val))
RECURSIVE NumericOnly(_)
NumericOnly(vals) ==
  IF vals = <<>> THEN <<>>
  ELSE (IF IsFinite(Head(vals)) THEN <<Head(vals)>> ELSE <<>>) \o NumericOnly(Tail(vals))

NumericFilter(min, max, value) ==
  [type |-> "numeric", min |-> min, max |-> max, value |-> value,
   availableValues |-> <<>>, selectedValues |-> <<>>]

\* a categorical filter that starts with no value selected
CategoricalFilterNoneSelected(available, selected) ==
  [type |-> "categorical", min |-> Null, max |-> Null, value |-> Null,
   availableValues |-> available, selectedValues |-> <<>>]

CategoricalFilter(available, selected) ==
  [type |-> "categorical", min |-> Null, max |-> Null, value |-> Null,
   availableValues |-> available, selectedValues |-> selected]

\* the columns.forEach of processData that builds filterConfigs
BuildFilterConfigs(rows, fields) ==
  LET hasFilter(column) ==
        \/ isColumnCategorical(rows, column)
        \/ NumericOnly(ColumnValues(rows, column)) # <<>>
      \* the last field wins when two fields normalize to the same key
      fieldOf(key) ==
        fields[CHOOSE i \in 1..Len(fields) :
                 /\ normalizeColumnName(fields[i]) = key
                 /\ hasFilter(fields[i])
                 /\ \A j \in (i + 1)..Len(fields) :
                      ~(normalizeColumnName(fields[j]) = key /\ hasFilter(fields[j]))]
      keys == {normalizeColumnName(fields[i]) : i \in {j \in 1..Len(fields) : hasFilter(fields[j])}}
  IN [key \in keys |->
        LET column == fieldOf(key)
            columnValues == ColumnValues(rows, column)
        IN IF isColumnCategorical(rows, column)
           THEN LET uniqueValues == UniqueSorted(columnValues)
                IN CategoricalFilter(uniqueValues, uniqueValues)
           ELSE LET numericValues == NumericOnly(columnValues)
                IN NumericFilter(MinOf(numericValues), MaxOf(numericValues),
                                 MinOf(numericValues))]

\* the value stored for a cell: an empty cell becomes '' in a column whose
\* first non-empty value is a string, and 0 otherwise
StoredCell(rows, column, value) ==
  IF ~NonEmpty(value)
  THEN LET values == ColumnValues(rows, column)
       IN IF values # <<>> /\ values[1].k = "str" THEN Str("") ELSE Num(0)
  ELSE value

\* Math.abs of the numbers of a raw row, 0 for every other value
RECURSIVE AbsValues(_, _)
AbsValues(row, fields) ==
  IF fields = <<>> THEN <<>>
  ELSE LET v == Get(row, Head(fields))
       IN <<IF IsFinite(v) THEN Rat(Abs(v.n), v.d) ELSE IF IsNumber(v) THEN NaN ELSE Num(0)>>
          \o AbsValues(row, Tail(fields))

\* one element of rawData.map((row, index) => processedRow)
ProcessRow(rows, fields, index) ==
  LET row == rows[index + 1]
      keys == {normalizeColumnName(fields[i]) : i \in 1..Len(fields)}
      lastField(key) ==
        fields[CHOOSE i \in 1..Len(fields) :
                 /\ normalizeColumnName(fields[i]) = key
                 /\ \A j \in (i + 1)..Len(fields) : normalizeColumnName(fields[j]) # key]
      cells == [key \in keys |-> StoredCell(rows, lastField(key), Get(row, lastField(key)))]
  IN ("total" :> SumFrom(Num(0), AbsValues(row, fields))) @@ cells @@ ("id" :> Num(index))

(***************************************************************************)
(* Derived column engine                                                    *)
(***************************************************************************)
Formula(type, columns, column1, column2) ==
  [type |-> type, columns |-> columns, column1 |-> column1, column2 |-> column2]

\* columns.map(col => row[col])
RECURSIVE Pick(_, _)
Pick(row, columns) ==
  IF columns = <<>> THEN <<>>
  ELSE <<Get(row, Head(columns))>> \o Pick(row, Tail(columns))

\* columns.map(col => row[col] || 0)
RECURSIVE PickOrZero(_, _)
PickOrZero(row, columns) ==
  IF columns = <<>> THEN <<>>
  ELSE <<OrElse(Get(row, Head(columns)), Num(0))>> \o PickOrZero(row, Tail(columns))

\* the denominator of ratio and percentage: row[column2] || 1
Denominator(row, column) == OrElse(Get(row, column), Num(1))

\* the switch (formula.type) of calculateQuickFormulas, which
\* prepareGroupedData repeats for a group record
EvalFormula(formula, row) ==
  CASE formula.type = "custom_average" ->
         LET avgValues == NumericOnly(Pick(row, formula.columns))
         IN IF Len(avgValues) > 0
            THEN JsDiv(SumFrom(Num(0), avgValues), Num(Len(avgValues)))
            ELSE Num(0)
    [] formula.type = "custom_sum" ->
         SumFrom(Num(0), PickOrZero(row, formula.columns))
    [] formula.type = "ratio" ->
         LET numerator == OrElse(Get(row, formula.column1), Num(0))
             denominator == Denominator(row, formula.column2)
         IN IF denominator # Num(0) THEN JsDiv(numerator, denominator) ELSE Num(0)
    [] formula.type = "percentage" ->
         LET part == OrElse(Get(row, formula.column1), Num(0))
             total == Denominator(row, formula.column2)
         IN IF total # Num(0) THEN JsMul(JsDiv(part, total), Num(100)) ELSE Num(0)

\* calculatedColumns is an object used as an ordered map: a sequence of
\* [name, formula] entries in insertion order, names distinct
CalcNames(calculated) == [i \in 1..Len(calculated) |-> calculated[i].name]

CalcHas(calculated, name) == \E i \in 1..Len(calculated) : calculated[i].name = name

\* {...prev, [name]: formula}
CalcPut(calculated, name, formula) ==
  IF CalcHas(calculated, name)
  THEN [i \in 1..Len(calculated) |->
          IF calculated[i].name = name THEN [name |-> name, formula |-> formula]
          ELSE calculated[i]]
  ELSE Append(calculated, [name |-> name, formula |-> formula])

\* delete newCalc[name]
CalcDelete(calculated, name) == SelectSeq(calculated, LAMBDA e : e.name # name)

\* enhancedRow of calculateQuickFormulas: the row with every calculated column
\* evaluated on the row itself
EnhanceRow(row, calculated) ==
  [name \in Range(CalcNames(calculated)) |->
     EvalFormula((CHOOSE e \in Range(calculated) : e.name = name).formula, row)] @@ row

calculateQuickFormulas(rows, calculated) ==
  [i \in 1..Len(rows) |-> EnhanceRow(rows[i], calculated)]

(***************************************************************************)
(* Filter, sort, group, limit                                               *)
(***************************************************************************)
\* the comparator of sortData: negative, zero or positive
SortCompare(a, b, sortBy, xAxisColumn) ==
  LET valA == Get(a, sortBy)
      valB == Get(b, sortBy)
  IN IF IsNullish(valA) /\ IsNullish(valB) THEN 0
     ELSE IF IsNullish(valA) THEN 1
     ELSE IF IsNullish(valB) THEN -1
     ELSE IF sortBy = "count" THEN Sign(JsSub(Get(b, "count"), Get(a, "count")))
     ELSE IF sortBy = xAxisColumn
          THEN IF valA.k = "str" THEN localeCompare(valA.s, ToStr(valB))
               ELSE Sign(JsSub(OrElse(ToNumber(valA), Num(0)), OrElse(ToNumber(valB), Num(0))))
     ELSE Sign(JsSub(OrElse(ToNumber(valB), Num(0)), OrElse(ToNumber(valA), Num(0))))

\* Array.prototype.sort is stable: an element goes behind every element that
\* does not compare greater than it
RECURSIVE InsertStable(_, _, _, _)
InsertStable(sorted, x, sortBy, xAxisColumn) ==
  IF sorted = <<>> THEN <<x>>
  ELSE IF SortCompare(sorted[Len(sorted)], x, sortBy, xAxisColumn) <= 0
       THEN Append(sorted, x)
  ELSE Append(InsertStable(SubSeq(sorted, 1, Len(sorted) - 1), x, sortBy, xAxisColumn),
              sorted[Len(sorted)])

RECURSIVE SortFrom(_, _, _, _)
SortFrom(sorted, rest, sortBy, xAxisColumn) ==
  IF rest = <<>> THEN sorted
  ELSE SortFrom(InsertStable(sorted, Head(rest), sortBy, xAxisColumn), Tail(rest),
                sortBy, xAxisColumn)

sortData(rows, sortBy, xAxisColumn) == SortFrom(<<>>, rows, sortBy, xAxisColumn)

\* the legacy thresholds: rowValue !== undefined && rowValue >= value
PassesLegacy(row, filterValues) ==
  \A column \in DOMAIN filterValues : JsGte(Get(row, column), filterValues[column])

\* a filter test under which a categorical filter with nothing selected is no
\* filter at all
PassesFilterUnlessEmpty(row, column, filterConfig) ==
  IF filterConfig.type = "numeric"
  THEN JsGte(Get(row, column), filterConfig.value)
  ELSE IF Len(filterConfig.selectedValues) = 0 THEN TRUE
  ELSE Includes(filterConfig.selectedValues, Trim(ToStr(Get(row, column))))

\* the test one filter config applies to a row; a categorical filter with
\* nothing selected empties the row list
PassesFilter(row, column, filterConfig) ==
  IF filterConfig.type = "numeric"
  THEN JsGte(Get(row, column), filterConfig.value)
  ELSE IF Len(filterConfig.selectedValues) = 0 THEN FALSE
  ELSE Includes(filterConfig.selectedValues, Trim(ToStr(Get(row, column))))

\* the two forEach loops over filterValues and filterConfigs: each loop step
\* keeps the rows that pass one filter, so the rows left are those that pass
\* all of them
ApplyFilters(rows, filterValues, filterConfigs) ==
  SelectSeq(rows, LAMBDA row :
    /\ PassesLegacy(row, filterValues)
    /\ \A column \in DOMAIN filterConfigs : PassesFilter(row, column, filterConfigs[column]))

\* the result of a call: the rows returned, or threw = TRUE when the call
\* ends in an exception
Returned(rows) == [threw |-> FALSE, rows |-> rows]

Threw == [threw |-> TRUE, rows |-> <<>>]

\* String(row[groupByColumn]).trim().replace(/[^\w\s-]/g, '')
GroupKey(row, groupByColumn) == StripNonWord(Trim(ToStr(Get(row, groupByColumn))))

\* Object.values(groups) holds one record per distinct group key.  The
\* callback of groupedData.map reads groupedDataWithCalculations, the constant
\* that the very call initialises: the read is in the temporal dead zone
\* (ReferenceError), and where the build has turned const into var it is
\* undefined and sortData spreads undefined (TypeError).  Either way the first
\* group ends the call in an exception; with no group the callback never runs
\* and the sort and the slice of the empty list return it.
prepareGroupedData(filteredData, cfg) ==
  LET groupKeys == {GroupKey(filteredData[i], cfg.groupByColumn) : i \in 1..Len(filteredData)}
  IN IF groupKeys # {} THEN Threw
     ELSE Returned(Slice(<<>>, cfg.displayCount))

prepareChartData(rows, cfg) ==
  LET filteredData == ApplyFilters(rows, cfg.filterValues, cfg.filterConfigs)
  IN IF cfg.groupByColumn # Nil
     THEN prepareGroupedData(filteredData, cfg)
     ELSE Returned(Slice(sortData(filteredData, cfg.sortBy, cfg.xAxisColumn), cfg.displayCount))

(***************************************************************************)
(* Chart rendering                                                          *)
(***************************************************************************)
\* config.selectedColumns.reduce((sum, col) => sum + (row[col] || 0), 0)
RowTotal(row, selectedColumns) == SumFrom(Num(0), PickOrZero(row, selectedColumns))

\* a percentage that guards only against a total of zero
PercentageOfNonZero(value, total) ==
  IF ToNumber(total) # Num(0)
  THEN JsMul(JsDiv(OrElse(value, Num(0)), total), Num(100))
  ELSE Num(0)

\* total > 0 ? ((row[col] || 0) / total) * 100 : 0
Percentage(value, total) ==
  IF JsGt(total, Num(0))
  THEN JsMul(JsDiv(OrElse(value, Num(0)), total), Num(100))
  ELSE Num(0)

\* one element of percentageData: the row with every selected column replaced
\* by its percentage of the row total
PercentageRow(row, selectedColumns) ==
  LET total == RowTotal(row, selectedColumns)
  IN [col \in Range(selectedColumns) |-> Percentage(Get(row, col), total)] @@ row

\* a horizontal 100% chart that stays with the first charting library
renderVerticalStackedBar100(rows, cfg) ==
  [kind |-> "stackedBar100", backend |-> "recharts",
   data |-> [i \in 1..Len(rows) |-> PercentageRow(rows[i], cfg.selectedColumns)]]

\* renderHorizontalStackedBar100 computes the same percentageData and hands it
\* to the Chart.js bar chart
renderHorizontalStackedBar100(rows, cfg) ==
  [kind |-> "stackedBar100", backend |-> "chartjs",
   data |-> [i \in 1..Len(rows) |-> PercentageRow(rows[i], cfg.selectedColumns)]]

\* every selected column taken as numeric
ScatterColumnsUnchecked(rows, cfg) == cfg.selectedColumns

\* the selected columns with a number in some charted row
ScatterColumns(rows, cfg) ==
  SelectSeq(cfg.selectedColumns, LAMBDA col :
    \E i \in 1..Len(rows) : IsFinite(Get(rows[i], col)))

\* what renderChart returns for the rows prepareChartData returned: an empty
\* state, or the chart of a backend with the data handed to it; the scatter
\* chart with the dataKey of its <XAxis> and <YAxis>; the composed
\* chart with its <Bar yAxisId="left"> and <Line yAxisId="right"> series and
\* the closing bar chart with its <Bar stackId="a"> series, by column
renderChart(rows, cfg) ==
  IF Len(rows) = 0 THEN [kind |-> "No Data to Display"]
  ELSE IF Len(cfg.selectedColumns) = 0 THEN [kind |-> "No Columns Selected"]
  ELSE IF cfg.chartType = "stackedBar100"
  THEN IF cfg.isHorizontal THEN renderHorizontalStackedBar100(rows, cfg)
       ELSE [kind |-> "stackedBar100", backend |-> "recharts",
             data |-> [i \in 1..Len(rows) |-> PercentageRow(rows[i], cfg.selectedColumns)]]
  ELSE IF cfg.chartType \in {"stackedBar", "groupedBar"}
  THEN [kind |-> cfg.chartType,
        backend |-> IF cfg.isHorizontal THEN "chartjs" ELSE "recharts",
        data |-> rows]
  ELSE IF cfg.chartType \in {"line", "area"}
  THEN [kind |-> cfg.chartType, backend |-> "recharts", data |-> rows]
  ELSE IF cfg.chartType = "scatter"
  THEN LET numericColumns == ScatterColumns(rows, cfg)
       IN IF Len(numericColumns) < 2
          THEN [kind |-> "Scatter Plot Needs 2 Numeric Columns"]
          ELSE LET xAxisColumn == numericColumns[1]
                   yAxisColumn == IF cfg.secondaryAxis # Nil
                                     /\ Includes(numericColumns, cfg.secondaryAxis)
                                  THEN cfg.secondaryAxis ELSE numericColumns[2]
                   scatterData ==
                     SelectSeq(rows, LAMBDA row :
                       IsFinite(Get(row, xAxisColumn)) /\ IsFinite(Get(row, yAxisColumn)))
               IN IF Len(scatterData) = 0 THEN [kind |-> "No Valid Data Points"]
                  ELSE [kind |-> "scatter", backend |-> "recharts",
                        x |-> xAxisColumn, y |-> yAxisColumn, data |-> scatterData]
  ELSE IF cfg.chartType = "composed" /\ cfg.secondaryAxis # Nil
  THEN [kind |-> "composed", backend |-> "recharts",
        bars |-> SelectSeq(cfg.selectedColumns, LAMBDA column : column = cfg.secondaryAxis),
        lines |-> SelectSeq(cfg.selectedColumns, LAMBDA column : column # cfg.secondaryAxis),
        data |-> rows]
  ELSE [kind |-> "stackedBar", backend |-> "recharts", stack |-> cfg.selectedColumns,
        data |-> rows]

(***************************************************************************)
(* Component state                                                          *)
(***************************************************************************)
VARIABLES
  defaultChartType,   \* the defaultChartType prop
  csvData,            \* the csvData prop: the parse result of its text
  mounted,            \* the mount effect has run
  rawData,            \* rawData, with the key order of its row objects
  data,               \* the processed rows
  availableColumns,   \* the column names offered by the controls
  config,             \* the ChartConfig
  calculatedColumns,  \* name -> formula
  savedConfigs,       \* name -> ChartConfig
  loading,
  error,
  timers,             \* pending setTimeout(() => processData(rawData)) closures
  chartData,          \* the outcome of prepareChartData in the last render
  loads,              \* the fetches and file reads started, in the order of their start
  steps               \* the number of operations done

vars == <<defaultChartType, csvData, mounted, rawData, data, availableColumns, config,
          calculatedColumns, savedConfigs, loading, error, timers, chartData, loads, steps>>

NoData == [fields |-> <<>>, rows |-> <<>>]

\* the initial value of the config state, which fetchData sets again
InitialConfig(filterValues) ==
  [selectedColumns |-> [i \in 1..Len(defaultYColumns) |-> normalizeColumnName(defaultYColumns[i])],
   groupByColumn |-> Nil,
   filterValues |-> filterValues,
   filterConfigs |-> EmptyMap,
   chartType |-> defaultChartType,
   sortBy |-> IF Len(defaultYColumns) > 0 THEN normalizeColumnName(defaultYColumns[1]) ELSE "id",
   displayCount |-> defaultDisplayCount,
   secondaryAxis |-> Nil,
   xAxisColumn |-> "id",
   isHorizontal |-> FALSE]

\* names.map(col => normalizeColumnName(col))
NormalizeAll(names) == [i \in 1..Len(names) |-> normalizeColumnName(names[i])]

\* rows.some(row => typeof row[key] === 'number' && !isNaN(row[key]) && row[key] !== 0)
HasNumericData(rows, key) ==
  \E i \in 1..Len(rows) : IsFinite(Get(rows[i], key)) /\ Get(rows[i], key) # Num(0)

\* processData(rawData) run in a render whose calculatedColumns is calculated:
\* the state it sets, config as a function of the previous config (its
\* closing timer sets config to a copy of itself, which changes nothing here)
processData(raw, calculated, prev) ==
  LET columnsArray == raw.fields
      effectiveXAxis == normalizeColumnName(columnsArray[1])
      numericY ==
        NormalizeAll(Slice(SelectSeq(columnsArray, LAMBDA col :
          /\ normalizeColumnName(col) # effectiveXAxis
          /\ HasNumericData(raw.rows, col)), 2))
      categoricalY ==
        NormalizeAll(Slice(SelectSeq(columnsArray, LAMBDA col :
          /\ normalizeColumnName(col) # effectiveXAxis
          /\ isColumnCategorical(raw.rows, col)), 2))
      effectiveYColumns ==
        IF Len(defaultYColumns) > 0
        THEN NormalizeAll(defaultYColumns)
        ELSE IF Len(numericY) > 0 THEN numericY ELSE categoricalY
      processedData == [i \in 1..Len(raw.rows) |-> ProcessRow(raw.rows, columnsArray, i - 1)]
      calculatedColumnNames == CalcNames(calculated)
  IN [availableColumns |-> columnsArray \o calculatedColumnNames,
      config |-> [prev EXCEPT !.selectedColumns = effectiveYColumns,
                              !.xAxisColumn = effectiveXAxis,
                              !.sortBy = IF Len(effectiveYColumns) > 0
                                         THEN effectiveYColumns[1] ELSE effectiveXAxis,
                              !.filterConfigs = BuildFilterConfigs(raw.rows, columnsArray)],
      data |-> calculateQuickFormulas(processedData, calculated)]

\* const newConfig = {...prev, ...changes}
Merge(prev, changes) ==
  [field \in DOMAIN prev |-> IF field \in DOMAIN changes THEN changes[field] ELSE prev[field]]

\* a repair that keeps "count" whether or not a group-by column is set
RepairSortByKeepingCount(newConfig) ==
  LET validSortOptions ==
        newConfig.selectedColumns \o <<newConfig.xAxisColumn, "count">>
  IN IF ~Includes(validSortOptions, newConfig.sortBy)
     THEN [newConfig EXCEPT !.sortBy =
             IF Len(newConfig.selectedColumns) > 0
             THEN newConfig.selectedColumns[1] ELSE newConfig.xAxisColumn]
     ELSE newConfig

\* what updateConfig does to sortBy when the changes hold selectedColumns
RepairSortBy(newConfig) ==
  LET validSortOptions ==
        newConfig.selectedColumns \o <<newConfig.xAxisColumn>>
          \o (IF newConfig.groupByColumn # Nil THEN <<"count">> ELSE <<>>)
  IN IF ~Includes(validSortOptions, newConfig.sortBy)
     THEN [newConfig EXCEPT !.sortBy =
             IF Len(newConfig.selectedColumns) > 0
             THEN newConfig.selectedColumns[1] ELSE newConfig.xAxisColumn]
     ELSE newConfig

\* the reducer of updateConfig(changes), changes a record of the fields set
updateConfig(prev, changes) ==
  LET newConfig == Merge(prev, changes)
  IN IF "selectedColumns" \in DOMAIN changes THEN RepairSortBy(newConfig) ELSE newConfig

\* a reducer that merges every update into the filter, whatever its type
updateFilterConfigUnguarded(prev, column, updates) ==
  IF column \notin DOMAIN prev.filterConfigs THEN prev
  ELSE [prev EXCEPT !.filterConfigs[column] = Merge(@, updates)]

\* the reducer of updateFilterConfig(column, updates)
updateFilterConfig(prev, column, updates) ==
  IF column \notin DOMAIN prev.filterConfigs THEN prev
  ELSE LET currentFilter == prev.filterConfigs[column]
           updatesType == IF "type" \in DOMAIN updates THEN updates.type ELSE Nil
           updatedFilter ==
             IF currentFilter.type = "numeric" /\ updatesType # "categorical"
             THEN Merge(currentFilter, updates)
             ELSE IF currentFilter.type = "categorical" /\ updatesType # "numeric"
             THEN Merge(currentFilter, updates)
             ELSE currentFilter
       IN [prev EXCEPT !.filterConfigs[column] = updatedFilter]

\* the component renders after every state change and every render that gets
\* past the loading and the error panel calls prepareChartData (the panels
\* show only while data is empty, where the call would return the empty
\* list); an exception there unmounts the component (the application has no
\* error boundary), after which no handler runs
Render(rows, cfg) == prepareChartData(rows, cfg)

Alive == mounted /\ ~chartData.threw

CanStep == Alive /\ steps < MaxSteps

Init ==
  /\ defaultChartType \in ChartTypeProps
  /\ csvData \in Datasets
  /\ mounted = FALSE
  /\ rawData = NoData
  /\ data = <<>>
  /\ availableColumns = <<>>
  /\ config = InitialConfig(initialFilters)
  /\ calculatedColumns = <<>>
  /\ savedConfigs = EmptyMap
  /\ loading = TRUE
  /\ error = Nil
  /\ timers = <<>>
  /\ chartData = Render(<<>>, InitialConfig(initialFilters))
  /\ loads = <<>>
  /\ steps = 0

\* cleanExcelErrors(value)
cleanExcelErrors(value) ==
  LET includes(marker) ==
        \E i \in 1..(Len(value.s) - Len(marker) + 1) :
          SubSeq(value.s, i, i + Len(marker) - 1) = marker
  IN IF /\ value.k = "str"
        /\ Len(value.s) > 0 /\ SubSeq(value.s, 1, 1) = "#"
        /\ \E marker \in {"DIV", "VALUE", "N/A", "REF", "NAME", "NUM", "NULL"} :
             includes(marker)
     THEN Num(0)
     ELSE value

\* Papa.parse with transform: (value, field) => cleanExcelErrors(value),
\* given the result of the parse without it (a marker cell is a string with
\* and without dynamicTyping, and the 0 returned for it stays 0)
ParseWithTransform(parsed) ==
  [parsed EXCEPT !.rows =
     [i \in 1..Len(parsed.rows) |->
        [field \in DOMAIN parsed.rows[i] |-> cleanExcelErrors(parsed.rows[i][field])]]]

\* fetchData with csvData set: the reset, the parse (parsed holds its result)
\* and processData run without a suspension point
FetchDataEffect(parsed) ==
  LET initialConfig == InitialConfig(EmptyMap)
  IN /\ savedConfigs' = EmptyMap
     /\ UNCHANGED <<calculatedColumns, timers>>
     /\ IF Len(parsed.rows) = 0
        THEN /\ rawData' = NoData
             /\ data' = <<>>
             /\ availableColumns' = <<>>
             /\ config' = initialConfig
             /\ error' = "Error loading data: No data found in CSV file."
             /\ loading' = FALSE
             /\ chartData' = Render(<<>>, initialConfig)
        ELSE LET results == ParseWithTransform(parsed)
                 p == processData(results, calculatedColumns, initialConfig)
             IN /\ rawData' = results
                /\ data' = p.data
                /\ availableColumns' = p.availableColumns
                /\ config' = p.config
                /\ error' = Nil
                /\ loading' = FALSE
                /\ chartData' = Render(p.data, p.config)

\* the effect [csvPath, csvData, onDataLoad] after the first render
Mount ==
  /\ ~mounted
  /\ mounted' = TRUE
  /\ FetchDataEffect(csvData)
  /\ UNCHANGED <<defaultChartType, loads, csvData, steps>>

\* the same effect after the parent has passed another csvData
ChangeSource(parsed) ==
  /\ CanStep
  /\ parsed # csvData
  /\ csvData' = parsed
  /\ FetchDataEffect(parsed)
  /\ steps' = steps + 1
  /\ UNCHANGED <<defaultChartType, loads, mounted>>

\* reader.onload of handleFile for an uploaded file with the given parse
\* result
HandleFile(parsed) ==
  /\ CanStep
  /\ LET reset == [config EXCEPT !.selectedColumns = <<>>,
                                 !.filterValues = EmptyMap,
                                 !.filterConfigs = EmptyMap]
     IN IF Len(parsed.rows) > 0
        THEN LET p == processData(parsed, calculatedColumns, reset)
             IN /\ rawData' = parsed
                /\ data' = p.data
                /\ availableColumns' = p.availableColumns
                /\ config' = p.config
                /\ loading' = FALSE
                /\ error' = error
                /\ chartData' = Render(p.data, p.config)
        ELSE /\ rawData' = NoData
             /\ data' = <<>>
             /\ availableColumns' = <<>>
             /\ config' = reset
             /\ loading' = FALSE
             /\ error' = "No data found in uploaded CSV file."
             /\ chartData' = Render(<<>>, reset)
  /\ steps' = steps + 1
  /\ UNCHANGED <<defaultChartType, loads, csvData, mounted, calculatedColumns, savedConfigs, timers>>

\* a state change that touches only config
SetConfig(newConfig) ==
  /\ config' = newConfig
  /\ chartData' = Render(data, newConfig)
  /\ steps' = steps + 1
  /\ UNCHANGED <<defaultChartType, loads, csvData, mounted, rawData, data, availableColumns,
                 calculatedColumns, savedConfigs, loading, error, timers>>

\* the normalized names of the columns the controls list
ColumnOptions == {normalizeColumnName(availableColumns[i]) : i \in 1..Len(availableColumns)}

\* the checkbox of a column
ToggleColumn(column) ==
  /\ CanStep
  /\ column \in ColumnOptions
  /\ SetConfig(updateConfig(config,
       [selectedColumns |->
          IF Includes(config.selectedColumns, column)
          THEN Without(config.selectedColumns, column)
          ELSE Append(config.selectedColumns, column)]))

\* the X-Axis select
SetXAxis(column) ==
  /\ CanStep
  /\ column \in ColumnOptions
  /\ column # config.xAxisColumn
  /\ SetConfig(updateConfig(config, [xAxisColumn |-> column]))

\* the Group By select; its first option is "No Grouping"
SetGroupBy(column) ==
  /\ CanStep
  /\ column \in ColumnOptions \cup {Nil}
  /\ column # config.groupByColumn
  /\ SetConfig(updateConfig(config, [groupByColumn |-> column]))

\* the options of the Sort By select
SortOptions ==
  (IF config.groupByColumn # Nil THEN {"count"} ELSE {})
    \cup Range(config.selectedColumns) \cup {config.xAxisColumn}

SetSortBy(key) ==
  /\ CanStep
  /\ key \in SortOptions
  /\ key # config.sortBy
  /\ SetConfig(updateConfig(config, [sortBy |-> key]))

\* the Show Top select
SetDisplayCount(n) ==
  /\ CanStep
  /\ n \in DisplayCountOptions
  /\ n <= MaxDisplayCount
  /\ n # config.displayCount
  /\ SetConfig(updateConfig(config, [displayCount |-> n]))

\* the slider of a numeric filter; of its positions the model takes the
\* two ends
SetThreshold(column, value) ==
  /\ CanStep
  /\ column \in DOMAIN config.filterConfigs
  /\ config.filterConfigs[column].type = "numeric"
  /\ value \in {config.filterConfigs[column].min, config.filterConfigs[column].max}
  /\ value # config.filterConfigs[column].value
  /\ SetConfig(updateFilterConfig(config, column, [value |-> value]))

\* the All button of a categorical filter
SelectAll(column) ==
  /\ CanStep
  /\ column \in DOMAIN config.filterConfigs
  /\ config.filterConfigs[column].type = "categorical"
  /\ config.filterConfigs[column].selectedValues # config.filterConfigs[column].availableValues
  /\ SetConfig(updateFilterConfig(config, column,
       [selectedValues |-> config.filterConfigs[column].availableValues]))

\* the None button of a categorical filter
SelectNone(column) ==
  /\ CanStep
  /\ column \in DOMAIN config.filterConfigs
  /\ config.filterConfigs[column].type = "categorical"
  /\ config.filterConfigs[column].selectedValues # <<>>
  /\ SetConfig(updateFilterConfig(config, column, [selectedValues |-> <<>>]))

\* the checkbox of one value of a categorical filter
ToggleValue(column, value) ==
  /\ CanStep
  /\ column \in DOMAIN config.filterConfigs
  /\ config.filterConfigs[column].type = "categorical"
  /\ Includes(config.filterConfigs[column].availableValues, value)
  /\ LET selected == config.filterConfigs[column].selectedValues
         newSelected == IF Includes(selected, value) THEN Without(selected, value)
                        ELSE Append(selected, value)
     IN SetConfig(updateFilterConfig(config, column, [selectedValues |-> newSelected]))

\* the values the filter checkboxes of the loaded datasets can show
FilterValueOptions ==
  UNION {Range(config.filterConfigs[column].availableValues) : column \in DOMAIN config.filterConfigs}

\* the Chart Type select
SetChartType(type) ==
  /\ CanStep
  /\ type \in availableChartTypes
  /\ type # config.chartType
  /\ SetConfig(updateConfig(config, [chartType |-> type]))

\* the Orientation button, shown for the three bar types
ToggleOrientation ==
  /\ CanStep
  /\ config.chartType \in {"stackedBar", "stackedBar100", "groupedBar"}
  /\ SetConfig(updateConfig(config, [isHorizontal |-> ~config.isHorizontal]))

\* the secondary axis select, shown for scatter and composed
SetSecondaryAxis(column) ==
  /\ CanStep
  /\ config.chartType \in {"scatter", "composed"}
  /\ column \in Range(config.selectedColumns) \cup {Nil}
  /\ column # config.secondaryAxis
  /\ SetConfig(updateConfig(config, [secondaryAxis |-> column]))

\* the names under which the model saves configurations
ConfigNames == {"saved"}

\* saveCurrentConfig with configName typed in
SaveConfig(name) ==
  /\ CanStep
  /\ name \in ConfigNames
  /\ savedConfigs' = (name :> config) @@ savedConfigs
  /\ savedConfigs' # savedConfigs
  /\ steps' = steps + 1
  /\ UNCHANGED <<defaultChartType, loads, csvData, mounted, rawData, data, availableColumns, config,
                 calculatedColumns, loading, error, timers, chartData>>

\* loadConfig(name) from the Load configuration select
LoadConfig(name) ==
  /\ CanStep
  /\ name \in DOMAIN savedConfigs
  /\ SetConfig(savedConfigs[name])

(***************************************************************************)
(* Calculated columns                                                       *)
(***************************************************************************)
\* s.replace(/\s+/g, '_')
RECURSIVE ReplaceSpaces(_)
ReplaceSpaces(s) ==
  IF s = "" THEN ""
  ELSE IF IsSpace(Head(s)) THEN "_" \o ReplaceSpaces(TrimStart(s))
  ELSE Head(s) \o ReplaceSpaces(Tail(s))

\* array.join('_')
RECURSIVE Join(_)
Join(names) ==
  IF names = <<>> THEN ""
  ELSE IF Len(names) = 1 THEN names[1]
  ELSE names[1] \o "_" \o Join(Tail(names))

\* the columns addQuickFormula offers: those with a non-zero number in some
\* row, the x-axis column left out
NumericColumns ==
  SelectSeq(availableColumns, LAMBDA col :
    /\ HasNumericData(data, normalizeColumnName(col))
    /\ normalizeColumnName(col) # config.xAxisColumn)

\* the answers to the prompt for several columns that the model gives: the
\* offered columns in the order listed, some left out
RECURSIVE SubLists(_)
SubLists(names) ==
  IF names = <<>> THEN {<<>>}
  ELSE LET rest == SubLists(Tail(names))
       IN rest \cup {<<Head(names)>> \o r : r \in rest}

\* the [name, formula] entries addQuickFormula(type) can add, one for each
\* answer to its prompts
QuickFormulas(type) ==
  CASE type = "custom_average" ->
         {[name |-> ReplaceSpaces("avg_" \o Join(cols)),
           formula |-> Formula("custom_average", NormalizeAll(cols), Nil, Nil)] :
            cols \in SubLists(NumericColumns) \ {<<>>}}
    [] type = "custom_sum" ->
         {[name |-> ReplaceSpaces("sum_" \o Join(cols)),
           formula |-> Formula("custom_sum", NormalizeAll(cols), Nil, Nil)] :
            cols \in SubLists(NumericColumns) \ {<<>>}}
    [] type = "custom_ratio" ->
         {[name |-> ReplaceSpaces("ratio_" \o pair[1] \o "_per_" \o pair[2]),
           formula |-> Formula("ratio", <<>>, normalizeColumnName(pair[1]),
                               normalizeColumnName(pair[2]))] :
            pair \in {q \in Range(NumericColumns) \X Range(NumericColumns) : q[1] # q[2]}}
    [] type = "custom_percentage" ->
         {[name |-> ReplaceSpaces("pct_" \o pair[1] \o "_of_" \o pair[2]),
           formula |-> Formula("percentage", <<>>, normalizeColumnName(pair[1]),
                               normalizeColumnName(pair[2]))] :
            pair \in {q \in Range(NumericColumns) \X Range(NumericColumns) : q[1] # q[2]}}

QuickFormulaTypes == {"custom_average", "custom_sum", "custom_ratio", "custom_percentage"}

\* the state after the effect [calculatedColumns] of a render with the given
\* calculated columns and config: processData(rawData) when there are raw rows
\* and calculated columns
Reprocess(raw, calculated, cfg) ==
  IF Len(raw.rows) > 0 /\ Len(calculated) > 0
  THEN LET p == processData(raw, calculated, cfg)
       IN /\ data' = p.data
          /\ availableColumns' = p.availableColumns
          /\ config' = p.config
          /\ loading' = FALSE
          /\ chartData' = Render(p.data, p.config)
  ELSE /\ config' = cfg
       /\ chartData' = Render(data, cfg)
       /\ UNCHANGED <<data, availableColumns, loading>>

\* a Quick Formulas button and the answers to its prompts, then the effect
\* [calculatedColumns]
AddQuickFormula(type, entry) ==
  /\ CanStep
  /\ Len(NumericColumns) >= 1
  /\ entry \in QuickFormulas(type)
  /\ CalcHas(calculatedColumns, entry.name) \/ Len(calculatedColumns) < MaxCalculated
  /\ calculatedColumns' = CalcPut(calculatedColumns, entry.name, entry.formula)
  /\ Reprocess(rawData, calculatedColumns', config)
  /\ steps' = steps + 1
  /\ UNCHANGED <<defaultChartType, loads, csvData, mounted, rawData, savedConfigs, error, timers>>

\* the remove button of a calculated column: the column leaves
\* calculatedColumns and the selection, a timer is set whose callback is the
\* processData of this render (it sees this render's rawData and
\* calculatedColumns), then the effect [calculatedColumns] runs
RemoveCalculatedColumn(name) ==
  /\ CanStep
  /\ CalcHas(calculatedColumns, name)
  /\ calculatedColumns' = CalcDelete(calculatedColumns, name)
  /\ timers' = Append(timers, [rawData |-> rawData, calculatedColumns |-> calculatedColumns])
  /\ Reprocess(rawData, calculatedColumns',
               updateConfig(config, [selectedColumns |-> Without(config.selectedColumns, name)]))
  /\ steps' = steps + 1
  /\ UNCHANGED <<defaultChartType, loads, csvData, mounted, rawData, savedConfigs, error>>

\* the timer of removeCalculatedColumn fires: processData(rawData) of the
\* render that set it
ReprocessTimer ==
  /\ Alive
  /\ timers # <<>>
  /\ timers' = Tail(timers)
  /\ IF Len(timers[1].rawData.rows) > 0
     THEN LET p == processData(timers[1].rawData, timers[1].calculatedColumns, config)
          IN /\ data' = p.data
             /\ availableColumns' = p.availableColumns
             /\ config' = p.config
             /\ loading' = FALSE
             /\ chartData' = Render(p.data, p.config)
     ELSE UNCHANGED <<data, availableColumns, config, loading, chartData>>
  /\ UNCHANGED <<defaultChartType, loads, csvData, mounted, rawData, calculatedColumns, savedConfigs, error, steps>>

Next ==
  \/ Mount
  \/ \E parsed \in Datasets : ChangeSource(parsed)
  \/ \E parsed \in Datasets : HandleFile(parsed)
  \/ \E column \in ColumnOptions : ToggleColumn(column)
  \/ \E column \in ColumnOptions : SetXAxis(column)
  \/ \E column \in ColumnOptions \cup {Nil} : SetGroupBy(column)
  \/ \E key \in SortOptions : SetSortBy(key)
  \/ \E n \in DisplayCountOptions : SetDisplayCount(n)
  \/ \E type \in availableChartTypes : SetChartType(type)
  \/ ToggleOrientation
  \/ \E column \in Range(config.selectedColumns) \cup {Nil} : SetSecondaryAxis(column)
  \/ \E column \in DOMAIN config.filterConfigs :
       \E value \in {config.filterConfigs[column].min, config.filterConfigs[column].max} :
         SetThreshold(column, value)
  \/ \E column \in DOMAIN config.filterConfigs : SelectAll(column)
  \/ \E column \in DOMAIN config.filterConfigs : SelectNone(column)
  \/ \E column \in DOMAIN config.filterConfigs :
       \E value \in FilterValueOptions : ToggleValue(column, value)
  \/ \E name \in ConfigNames : SaveConfig(name)
  \/ \E name \in ConfigNames : LoadConfig(name)
  \/ \E type \in QuickFormulaTypes : \E entry \in QuickFormulas(type) : AddQuickFormula(type, entry)
  \/ \E name \in Range(CalcNames(calculatedColumns)) : RemoveCalculatedColumn(name)
  \/ ReprocessTimer

Spec == Init /\ [][Next]_vars

(***************************************************************************)
(* The chart controls alone, for every value of the defaultChartType prop   *)
(***************************************************************************)
InitChart ==
  /\ defaultChartType \in availableChartTypes
  /\ csvData \in Datasets
  /\ mounted = FALSE
  /\ rawData = NoData
  /\ data = <<>>
  /\ availableColumns = <<>>
  /\ config = InitialConfig(initialFilters)
  /\ calculatedColumns = <<>>
  /\ savedConfigs = EmptyMap
  /\ loading = TRUE
  /\ error = Nil
  /\ timers = <<>>
  /\ chartData = Render(<<>>, InitialConfig(initialFilters))
  /\ loads = <<>>
  /\ steps = 0

NextChart ==
  \/ Mount
  \/ \E column \in ColumnOptions : ToggleColumn(column)
  \/ \E type \in availableChartTypes : SetChartType(type)
  \/ ToggleOrientation
  \/ \E column \in Range(config.selectedColumns) \cup {Nil} : SetSecondaryAxis(column)
  \/ \E column \in DOMAIN config.filterConfigs : SelectNone(column)

SpecChart == InitChart /\ [][NextChart]_vars

(***************************************************************************)
(* Loads that complete later: the fetch of csvPath and the FileReader       *)
(***************************************************************************)
\* a text of the header line alone: Papa.parse returns no row
HeaderOnly == [fields |-> <<"cat", "v">>, rows |-> <<>>]

\* what await fetch(csvPath) and await response.text() come back with: the
\* text (parsed holds its parse result), a rejection, or a response that is
\* not ok
FetchOutcomes ==
  [result : {"ok"}, parsed : Datasets \cup {HeaderOnly}]
    \cup [result : {"rejected", "http"}, parsed : {NoData}]

\* neither csvPath nor csvData is passed
NoSource == [result |-> "none", parsed |-> NoData]

\* what reader.readAsText(file) ends in: onload with the text, onload with
\* the empty string, or onerror
ReadOutcomes ==
  [result : {"ok"}, parsed : Datasets \cup {HeaderOnly}]
    \cup [result : {"blank", "unreadable"}, parsed : {NoData}]

\* the message of the Error caught by fetchData
ThrownMessage(outcome) ==
  CASE outcome.result = "rejected" -> "Failed to fetch"
    [] outcome.result = "http" -> "HTTP error! Status: 404"
    [] outcome.result = "none" ->
         "No data source provided. Please provide either csvPath or csvData prop."
    [] OTHER -> "No data found in CSV file."

\* the render gets past the loading panel and the error panel, so the upload
\* area and the controls exist
ControlsShown == ~loading /\ ~(error # Nil /\ Len(data) = 0)

\* fetchData up to its first await (with no source: up to the end of its
\* catch block), run by the effect in a render whose calculatedColumns the
\* closure keeps
FetchDataStart(outcome) ==
  LET initialConfig == InitialConfig(EmptyMap)
      failsAtOnce == outcome.result = "none"
  IN /\ rawData' = NoData
     /\ data' = <<>>
     /\ availableColumns' = <<>>
     /\ savedConfigs' = EmptyMap
     /\ config' = initialConfig
     /\ chartData' = Render(<<>>, initialConfig)
     /\ loading' = ~failsAtOnce
     /\ error' = IF failsAtOnce THEN "Error loading data: " \o ThrownMessage(outcome) ELSE Nil
     /\ loads' = Append(loads, [kind |-> "fetch", outcome |-> outcome,
                                calculated |-> calculatedColumns, done |-> failsAtOnce])
     /\ UNCHANGED <<calculatedColumns, timers>>

\* the effect [csvPath, csvData, onDataLoad] after the first render, with
\* csvPath (or nothing) passed
MountPath(outcome) ==
  /\ ~mounted
  /\ mounted' = TRUE
  /\ FetchDataStart(outcome)
  /\ UNCHANGED <<defaultChartType, csvData, steps>>

\* the same effect after the parent has passed another csvPath
ChangePath(outcome) ==
  /\ Alive
  /\ steps < MaxSteps
  /\ FetchDataStart(outcome)
  /\ steps' = steps + 1
  /\ UNCHANGED <<defaultChartType, csvData, mounted>>

\* handleFile up to reader.readAsText(file), for a file dropped on or picked
\* in the upload area
HandleFileStart(outcome) ==
  /\ CanStep
  /\ ControlsShown
  /\ loads' = Append(loads, [kind |-> "file", outcome |-> outcome,
                             calculated |-> calculatedColumns, done |-> FALSE])
  /\ steps' = steps + 1
  /\ UNCHANGED <<defaultChartType, csvData, mounted, rawData, data, availableColumns, config,
                 calculatedColumns, savedConfigs, loading, error, timers, chartData>>

\* a failure that sets the message and leaves the loading panel up
LoadFailedStillLoading(message) ==
  /\ error' = message
  /\ loading' = loading
  /\ UNCHANGED <<rawData, data, availableColumns, config, chartData>>

\* the state a load leaves when it sets only error and loading
LoadFailed(message) ==
  /\ error' = message
  /\ loading' = FALSE
  /\ UNCHANGED <<rawData, data, availableColumns, config, chartData>>

\* setRawData(results.data) and processData(results.data) of a load, results
\* what its Papa.parse returned and prev the config its earlier setConfig
\* calls leave
LoadSucceeded(results, load, prev) ==
  LET p == processData(results, load.calculated, prev)
  IN /\ rawData' = results
     /\ data' = p.data
     /\ availableColumns' = p.availableColumns
     /\ config' = p.config
     /\ loading' = FALSE
     /\ error' = error
     /\ chartData' = Render(p.data, p.config)

\* fetchData from its first await on
FetchDataResume(load) ==
  IF load.outcome.result = "ok" /\ Len(load.outcome.parsed.rows) > 0
  THEN LoadSucceeded(ParseWithTransform(load.outcome.parsed), load, config)
  ELSE LoadFailed("Error loading data: " \o ThrownMessage(load.outcome))

\* reader.onload
ReaderOnLoad(load) ==
  LET reset == [config EXCEPT !.selectedColumns = <<>>,
                              !.filterValues = EmptyMap,
                              !.filterConfigs = EmptyMap]
  IN IF load.outcome.result = "blank"
     THEN UNCHANGED <<rawData, data, availableColumns, config, loading, error, chartData>>
     ELSE IF Len(load.outcome.parsed.rows) > 0
     THEN LoadSucceeded(load.outcome.parsed, load, reset)
     ELSE /\ rawData' = NoData
          /\ data' = <<>>
          /\ availableColumns' = <<>>
          /\ config' = reset
          /\ loading' = FALSE
          /\ error' = "No data found in uploaded CSV file."
          /\ chartData' = Render(<<>>, reset)

\* reader.onerror
ReaderOnError == LoadFailed("Error reading the CSV file.")

\* a pending fetch or file read completes; they complete in any order
CompleteLoad(i) ==
  /\ Alive
  /\ i \in DOMAIN loads
  /\ ~loads[i].done
  /\ loads' = [loads EXCEPT ![i].done = TRUE]
  /\ IF loads[i].kind = "fetch" THEN FetchDataResume(loads[i])
     ELSE IF loads[i].outcome.result = "unreadable" THEN ReaderOnError
     ELSE ReaderOnLoad(loads[i])
  /\ UNCHANGED <<defaultChartType, csvData, mounted, calculatedColumns, savedConfigs,
                 timers, steps>>

InitLoads ==
  /\ defaultChartType \in ChartTypeProps
  /\ csvData = NoData
  /\ mounted = FALSE
  /\ rawData = NoData
  /\ data = <<>>
  /\ availableColumns = <<>>
  /\ config = InitialConfig(initialFilters)
  /\ calculatedColumns = <<>>
  /\ savedConfigs = EmptyMap
  /\ loading = TRUE
  /\ error = Nil
  /\ timers = <<>>
  /\ chartData = Render(<<>>, InitialConfig(initialFilters))
  /\ loads = <<>>
  /\ steps = 0

NextLoads ==
  \/ \E outcome \in FetchOutcomes \cup {NoSource} : MountPath(outcome)
  \/ \E outcome \in FetchOutcomes \cup {NoSource} : ChangePath(outcome)
  \/ \E outcome \in ReadOutcomes : HandleFileStart(outcome)
  \/ \E i \in DOMAIN loads : CompleteLoad(i)

SpecLoads == InitLoads /\ [][NextLoads]_vars

\* one outcome of each kind, for the runs that follow every load to its end
FewFetchOutcomes ==
  {[result |-> "ok", parsed |-> SalesData], [result |-> "ok", parsed |-> HeaderOnly],
   [result |-> "rejected", parsed |-> NoData], NoSource}

FewReadOutcomes ==
  {[result |-> "ok", parsed |-> SalesData], [result |-> "ok", parsed |-> HeaderOnly],
   [result |-> "blank", parsed |-> NoData], [result |-> "unreadable", parsed |-> NoData]}

InitLoadsFair == InitLoads /\ defaultChartType = "stackedBar"

NextLoadsFair ==
  \/ \E outcome \in FewFetchOutcomes : MountPath(outcome)
  \/ \E outcome \in FewFetchOutcomes : ChangePath(outcome)
  \/ \E outcome \in FewReadOutcomes : HandleFileStart(outcome)
  \/ \E i \in DOMAIN loads : CompleteLoad(i)

\* some fetch or file read has not completed: CompleteLoad(i) is enabled for
\* some i exactly in these states (its other conjuncts set variables)
LoadPending == Alive /\ \E i \in DOMAIN loads : ~loads[i].done

\* weak fairness of \E i : CompleteLoad(i), written out with LoadPending for
\* its ENABLED: a fetch or a file read that has been started completes (the
\* browser delivers the response, onload or onerror)
LoadsComplete ==
  []<>~LoadPending \/ []<><<\E i \in DOMAIN loads : CompleteLoad(i)>>_vars

\* the effect of the first render runs, and every load completes
SpecLoadsFair ==
  /\ InitLoadsFair
  /\ [][NextLoadsFair]_vars
  /\ WF_vars(\E outcome \in FewFetchOutcomes : MountPath(outcome))
  /\ LoadsComplete

(***************************************************************************)
(* updateFilterConfig with any Partial<FilterConfig>                        *)
(***************************************************************************)
\* values of the updates parameter: the fields the filter controls pass, and
\* updates that carry a type tag
FilterUpdates ==
  { [value |-> Num(1)],
    [selectedValues |-> <<>>],
    [selectedValues |-> <<"a">>],
    [type |-> "numeric"],
    [type |-> "categorical"],
    [type |-> "numeric", value |-> Num(1)],
    [type |-> "categorical", selectedValues |-> <<"a">>] }

\* values of the column parameter: the columns listed, and one that has no
\* filter
FilterColumns == ColumnOptions \cup {"missing"}

\* updateFilterConfig(column, updates)
UpdateFilter(column, updates) ==
  /\ CanStep
  /\ SetConfig(updateFilterConfig(config, column, updates))

NextFilters ==
  \/ Mount
  \/ \E column \in FilterColumns : \E updates \in FilterUpdates : UpdateFilter(column, updates)

SpecFilters == Init /\ [][NextFilters]_vars

(***************************************************************************)
(* Header names: normalizeColumnName over every short name                  *)
(***************************************************************************)
\* the longest header name
MaxNameLen == 3

\* the characters of the header names: an upper-case and a lower-case letter,
\* the two characters the function removes (whitespace as space and tab) and
\* one it keeps
NameChars == {"A", "b", " ", "\t", "-", "_"}

RECURSIVE NamesOfLength(_)
NamesOfLength(n) ==
  IF n = 0 THEN {""}
  ELSE {c \o rest : c \in NameChars, rest \in NamesOfLength(n - 1)}

ColumnNames == UNION {NamesOfLength(n) : n \in 1..MaxNameLen}

\* the parse result of a text with one header field and one line
NamedData(name) == [fields |-> <<name>>, rows |-> <<(name :> Num(1))>>]

InitNames ==
  /\ defaultChartType \in ChartTypeProps
  /\ csvData \in {NamedData(name) : name \in ColumnNames}
  /\ mounted = FALSE
  /\ rawData = NoData
  /\ data = <<>>
  /\ availableColumns = <<>>
  /\ config = InitialConfig(initialFilters)
  /\ calculatedColumns = <<>>
  /\ savedConfigs = EmptyMap
  /\ loading = TRUE
  /\ error = Nil
  /\ timers = <<>>
  /\ chartData = Render(<<>>, InitialConfig(initialFilters))
  /\ loads = <<>>
  /\ steps = 0

NextNames ==
  \/ Mount
  \/ \E column \in ColumnOptions : ToggleColumn(column)

SpecNames == InitNames /\ [][NextNames]_vars

(***************************************************************************)
(* A parent that passes thresholds in the initialFilters prop               *)
(***************************************************************************)
\* a value of the initialFilters prop: column v at least 10
ThresholdFilters == ("v" :> Num(10))

InitThresholds ==
  /\ defaultChartType \in ChartTypeProps
  /\ csvData \in Datasets
  /\ mounted = FALSE
  /\ rawData = NoData
  /\ data = <<>>
  /\ availableColumns = <<>>
  /\ config = InitialConfig(ThresholdFilters)
  /\ calculatedColumns = <<>>
  /\ savedConfigs = EmptyMap
  /\ loading = TRUE
  /\ error = Nil
  /\ timers = <<>>
  /\ chartData = Render(<<>>, InitialConfig(ThresholdFilters))
  /\ loads = <<>>
  /\ steps = 0

SpecThresholds == InitThresholds /\ [][NextChart]_vars

(***************************************************************************)
(* The controls of a loaded chart, from every setting of sort and grouping  *)
(***************************************************************************)
\* the chart of RatioData after the checkboxes, the Group By select and the
\* Sort By select have left a selection, a grouping and a sort key; "count"
\* stays the sort key when the grouping is taken away again
InitSort ==
  \E selected \in SubLists(<<"a", "b">>) \ {<<>>} :
    \E groupBy \in {Nil, "cat"} :
      \E sortBy \in Range(selected) \cup {"count"} :
        LET p == processData(ParseWithTransform(RatioData), <<>>, InitialConfig(EmptyMap))
            settings == [p.config EXCEPT !.selectedColumns = selected,
                                         !.groupByColumn = groupBy,
                                         !.sortBy = sortBy]
        IN /\ defaultChartType = "stackedBar"
           /\ csvData = RatioData
           /\ mounted = TRUE
           /\ rawData = ParseWithTransform(RatioData)
           /\ data = p.data
           /\ availableColumns = p.availableColumns
           /\ config = settings
           /\ calculatedColumns = <<>>
           /\ savedConfigs = EmptyMap
           /\ loading = FALSE
           /\ error = Nil
           /\ timers = <<>>
           /\ chartData = Render(p.data, settings)
           /\ loads = <<>>
           /\ steps = 0

NextSort ==
  \/ \E column \in ColumnOptions : ToggleColumn(column)
  \/ \E column \in ColumnOptions : SetXAxis(column)
  \/ \E column \in ColumnOptions \cup {Nil} : SetGroupBy(column)
  \/ \E key \in SortOptions : SetSortBy(key)
  \/ \E n \in DisplayCountOptions : SetDisplayCount(n)

SpecSort == InitSort /\ [][NextSort]_vars

(***************************************************************************)
(* Columns of many sizes and kinds, for the classifier                      *)
(***************************************************************************)
\* row counts and counts of distinct numbers around the limits 20 and 10%
RowCounts == {1, 2, 3, 19, 20, 21, 22}

NumberCounts == {1, 2, 19, 20, 21}

\* what the first cell of column v holds in place of a number: nothing
\* special, a text, a blank text, an empty cell; or the column is all empty
ColumnShapes == {"numbers", "text", "blank", "gap", "empty"}

\* the parse result of a text with header k,v and n lines: k numbers the
\* lines, v cycles through u numbers
ColumnData(n, u, shape) ==
  [fields |-> <<"k", "v">>,
   rows |-> [i \in 1..n |->
     [k |-> Num(i),
      v |-> IF shape = "empty" THEN Null
            ELSE IF i = 1 /\ shape = "text" THEN Str("x")
            ELSE IF i = 1 /\ shape = "blank" THEN Str(" ")
            ELSE IF i = 1 /\ shape = "gap" THEN Null
            ELSE Num(i % u)]]]

ColumnDatasets ==
  {ColumnData(n, u, shape) : n \in RowCounts, u \in NumberCounts, shape \in ColumnShapes}

InitColumns ==
  /\ defaultChartType \in ChartTypeProps
  /\ csvData \in ColumnDatasets
  /\ mounted = FALSE
  /\ rawData = NoData
  /\ data = <<>>
  /\ availableColumns = <<>>
  /\ config = InitialConfig(initialFilters)
  /\ calculatedColumns = <<>>
  /\ savedConfigs = EmptyMap
  /\ loading = TRUE
  /\ error = Nil
  /\ timers = <<>>
  /\ chartData = Render(<<>>, InitialConfig(initialFilters))
  /\ loads = <<>>
  /\ steps = 0

SpecColumns == InitColumns /\ [][Mount]_vars

(***************************************************************************)
(* Cells that hold spreadsheet error markers                                *)
(***************************************************************************)
\* cell texts: the Excel error values, texts with "#" or with a marker alone,
\* and plain text
CellTexts ==
  {"#DIV/0!", "#VALUE!", "#N/A", "#REF!", "#NAME?", "#NUM!", "#NULL!",
   "#N-A", "#tag", "DIV", "x#REF!", "ok"}

\* the parse result, without the transform, of a text with the header k,v
\* and two lines, the second with the given text in column v
MarkedData(text) ==
  [fields |-> <<"k", "v">>,
   rows |-> << [k |-> Str("r1"), v |-> Num(1)], [k |-> Str("r2"), v |-> Str(text)] >>]

MarkedDatasets == {MarkedData(text) : text \in CellTexts}

InitCells ==
  /\ defaultChartType \in ChartTypeProps
  /\ csvData \in MarkedDatasets
  /\ mounted = FALSE
  /\ rawData = NoData
  /\ data = <<>>
  /\ availableColumns = <<>>
  /\ config = InitialConfig(initialFilters)
  /\ calculatedColumns = <<>>
  /\ savedConfigs = EmptyMap
  /\ loading = TRUE
  /\ error = Nil
  /\ timers = <<>>
  /\ chartData = Render(<<>>, InitialConfig(initialFilters))
  /\ loads = <<>>
  /\ steps = 0

NextCells ==
  \/ Mount
  \/ \E parsed \in MarkedDatasets : ChangeSource(parsed)
  \/ \E parsed \in MarkedDatasets : HandleFile(parsed)

SpecCells == InitCells /\ [][NextCells]_vars

(***************************************************************************)
(* Properties of the pipeline                                               *)
(***************************************************************************)
\* the rows the filter stage of prepareChartData lets pass in this state
FilteredData == ApplyFilters(data, config.filterValues, config.filterConfigs)

\* the group keys of the rows that pass the filters
GroupKeys == {GroupKey(FilteredData[i], config.groupByColumn) : i \in 1..Len(FilteredData)}

\* the rows of one group
GroupRows(key) ==
  SelectSeq(FilteredData, LAMBDA row : GroupKey(row, config.groupByColumn) = key)

\* the sum of a column's numbers over rows
RECURSIVE ColumnSum(_, _)
ColumnSum(rows, column) ==
  IF rows = <<>> THEN Num(0)
  ELSE JsAdd(Get(Head(rows), column), ColumnSum(Tail(rows), column))

Min(a, b) == IF a <= b THEN a ELSE b

\* the scenario of C1: the three sales rows, v selected, grouped by cat,
\* sorted by v, displayCount 10, every row passing the filters
SalesScenario ==
  /\ rawData = SalesData
  /\ Len(FilteredData) = 3
  /\ config.selectedColumns = <<"v">>
  /\ config.groupByColumn = "cat"
  /\ config.sortBy = "v"
  /\ config.displayCount = 10

\* C1: with a group-by column set, prepareChartData returns one record per
\* distinct group key (as far as displayCount allows), each with id = the group
\* key, every selected numeric column summed over the group's filtered rows
\* and count = the number of those rows; in the sales scenario the result is
\* [{id: b, v: 15, count: 1}, {id: a, v: 2, count: 2}].
C1_GroupedRecords ==
  /\ (mounted /\ config.groupByColumn # Nil) =>
       /\ ~chartData.threw
       /\ Len(chartData.rows) = Min(Cardinality(GroupKeys), config.displayCount)
       /\ \A i \in 1..Len(chartData.rows) :
            LET group == chartData.rows[i]
            IN /\ group.id.k = "str"
               /\ group.id.s \in GroupKeys
               /\ group.count = Num(Len(GroupRows(group.id.s)))
               /\ \A col \in Range(config.selectedColumns) :
                    (\A j \in 1..Len(FilteredData) : IsFinite(Get(FilteredData[j], col)))
                      => Get(group, col) = ColumnSum(GroupRows(group.id.s), col)
  /\ SalesScenario =>
       /\ ~chartData.threw
       /\ Len(chartData.rows) = 2
       /\ chartData.rows[1].id = Str("b")
       /\ chartData.rows[1].v = Num(15)
       /\ chartData.rows[1].count = Num(1)
       /\ chartData.rows[2].id = Str("a")
       /\ chartData.rows[2].v = Num(2)
       /\ chartData.rows[2].count = Num(2)

\* the scenario of C2: the two rows of group g and the derived column
\* ratio(A, B), grouped by cat
RatioScenario ==
  /\ rawData = RatioData
  /\ Len(FilteredData) = 2
  /\ calculatedColumns = <<[name |-> "ratio_A_per_B",
                            formula |-> Formula("ratio", <<>>, "a", "b")]>>
  /\ config.groupByColumn = "cat"

\* C2: while grouping is active every derived column of a group's record is
\* its formula applied to the group's summed base columns; in the ratio
\* scenario group g has A = 10, B = 10 and ratio = 1.
C2_AggregateThenDerive ==
  /\ (mounted /\ config.groupByColumn # Nil /\ Len(FilteredData) > 0) =>
       /\ ~chartData.threw
       /\ Len(chartData.rows) > 0
       /\ \A i \in 1..Len(chartData.rows) :
            \A j \in 1..Len(calculatedColumns) :
              LET group == chartData.rows[i]
                  formula == calculatedColumns[j].formula
                  sums == [col \in {formula.column1, formula.column2} |->
                             ColumnSum(GroupRows(group.id.s), col)]
              IN formula.type = "ratio" /\ sums[formula.column2] # Num(0)
                   => Get(group, calculatedColumns[j].name)
                        = JsDiv(sums[formula.column1], sums[formula.column2])
  /\ RatioScenario =>
       /\ ~chartData.threw
       /\ Len(chartData.rows) = 1
       /\ chartData.rows[1].id = Str("g")
       /\ chartData.rows[1].a = Num(10)
       /\ chartData.rows[1].b = Num(10)
       /\ Get(chartData.rows[1], "ratio_A_per_B") = Num(1)

\* some categorical filter of the configuration has nothing selected
EmptySelection ==
  \E column \in DOMAIN config.filterConfigs :
    /\ config.filterConfigs[column].type = "categorical"
    /\ config.filterConfigs[column].selectedValues = <<>>

\* C3: if any categorical filter has an empty selected set the filter stage
\* passes zero rows, whatever the rows and the other filters, and the
\* pipeline returns the empty list.
C3_EmptySelectionPassesNothing ==
  EmptySelection => FilteredData = <<>> /\ chartData = Returned(<<>>)

\* C3 happens: rows are loaded, one categorical filter has nothing selected,
\* some row passes every other filter, and prepareChartData returned no row
C3_Witness ==
  /\ Alive
  /\ \E column \in DOMAIN config.filterConfigs :
       /\ config.filterConfigs[column].type = "categorical"
       /\ config.filterConfigs[column].selectedValues = <<>>
       /\ \E i \in 1..Len(data) :
            \A other \in DOMAIN config.filterConfigs \ {column} :
              PassesFilter(data[i], other, config.filterConfigs[other])
  /\ chartData = Returned(<<>>)

\* C4: for the numeric filter built for a loaded column, a threshold equal to
\* the column's min lets every loaded row pass that filter, and a threshold
\* equal to the column's max lets exactly the rows whose value is max pass.
C4_ThresholdAtMinAndMax ==
  \A column \in DOMAIN config.filterConfigs :
    LET filterConfig == config.filterConfigs[column]
        passing == {i \in 1..Len(data) : PassesFilter(data[i], column, filterConfig)}
    IN filterConfig.type = "numeric" =>
         /\ filterConfig.value = filterConfig.min => passing = 1..Len(data)
         /\ filterConfig.value = filterConfig.max =>
              passing = {i \in 1..Len(data) : Get(data[i], column) = filterConfig.max}


\* a <= b for two numbers
NumLeq(a, b) == a.n * b.d <= b.n * a.d

\* Number(v) || 0, the numeric value the sort gives a cell
NumericValue(v) == OrElse(ToNumber(v), Num(0))

\* rows are in non-decreasing order of the key: of two neighbours the first
\* does not come after the second, as strings when it is a string and as
\* numbers otherwise
NonDecreasing(rows, key) ==
  \A i \in 1..(Len(rows) - 1) :
    LET u == Get(rows[i], key)
        v == Get(rows[i + 1], key)
    IN IF u.k = "str" THEN localeCompare(u.s, ToStr(v)) <= 0
       ELSE NumLeq(NumericValue(u), NumericValue(v))

\* rows are in non-increasing order of the numeric value of the key
NonIncreasing(rows, key) ==
  \A i \in 1..(Len(rows) - 1) :
    NumLeq(NumericValue(Get(rows[i + 1], key)), NumericValue(Get(rows[i], key)))

\* C5: the row sequence the pipeline returns is non-decreasing in the sort key
\* when sortBy is the x-axis column, non-increasing in it when sortBy is
\* another selected or derived column, and non-increasing in count when sortBy
\* is "count" while grouping is active.
C5_SortDirections ==
  (mounted /\ Len(FilteredData) > 0) =>
    /\ ~chartData.threw
    /\ config.sortBy = config.xAxisColumn => NonDecreasing(chartData.rows, config.sortBy)
    /\ ( /\ config.sortBy # config.xAxisColumn
         /\ config.sortBy \in Range(config.selectedColumns) \cup Range(CalcNames(calculatedColumns)) )
         => NonIncreasing(chartData.rows, config.sortBy)
    /\ (config.sortBy = "count" /\ config.groupByColumn # Nil)
         => NonIncreasing(chartData.rows, "count")

\* C6: for displayCount = N the pipeline result has at most N rows and is the
\* first N elements of the sorted sequence of the filtered rows (of the groups
\* when grouping is active); when N is at least their number the result is
\* all of them.
C6_DisplayLimit ==
  mounted =>
    /\ ~chartData.threw
    /\ Len(chartData.rows) <= config.displayCount
    /\ config.groupByColumn = Nil =>
         /\ chartData.rows = Slice(sortData(FilteredData, config.sortBy, config.xAxisColumn),
                                   config.displayCount)
         /\ config.displayCount >= Len(FilteredData) => Len(chartData.rows) = Len(FilteredData)
    /\ config.groupByColumn # Nil =>
         Len(chartData.rows) = Min(Cardinality(GroupKeys), config.displayCount)

\* the chart area is shown: the render returns the loading or the error
\* panel before it reaches renderChart
ChartShown == Alive /\ ~loading /\ ~(error # Nil /\ Len(data) = 0)

Chart == renderChart(chartData.rows, config)

\* a charted row whose selected columns all hold numbers
NumericRow(row) == \A col \in Range(config.selectedColumns) : IsFinite(Get(row, col))

\* the sum of the selected columns of such a row
SelectedTotal(row) == SumFrom(Num(0), Pick(row, config.selectedColumns))

\* value / total * 100 for two numbers, total not zero
PercentOf(value, total) == Rat(value.n * total.d * 100, value.d * total.n)

C8_SortByValid ==
  /\ config.sortBy \in Range(config.selectedColumns) \cup {config.xAxisColumn, "count"}
  /\ ( /\ config.sortBy = "count"
       /\ "count" \notin Range(config.selectedColumns) \cup {config.xAxisColumn} )
       => config.groupByColumn # Nil

\* C9: a ratio(a, b) or percentage(part, total) column of a row is 0 when the
\* denominator column holds 0 and numerator / denominator (times 100 for a
\* percentage) otherwise, a missing numerator counting as 0.
C9_ZeroDenominator ==
  \A i \in 1..Len(data) :
    \A j \in 1..Len(calculatedColumns) :
      LET row == data[i]
          name == calculatedColumns[j].name
          formula == calculatedColumns[j].formula
          numerator == IF IsFinite(Get(row, formula.column1))
                       THEN Get(row, formula.column1) ELSE Num(0)
          denominator == Get(row, formula.column2)
          quotient == IF denominator.n = 0 THEN Num(0)
                      ELSE Rat(numerator.n * denominator.d, numerator.d * denominator.n)
      IN ( /\ formula.type \in {"ratio", "percentage"}
           /\ IsFinite(denominator)
           /\ name \in DOMAIN row )
           => row[name] = IF formula.type = "ratio" THEN quotient
                          ELSE JsMul(quotient, Num(100))

\* the sum of the numbers among the listed columns of a row
RECURSIVE NumericSum(_, _)
NumericSum(row, columns) ==
  IF columns = <<>> THEN Num(0)
  ELSE LET v == Get(row, Head(columns))
       IN JsAdd(IF IsFinite(v) THEN v ELSE Num(0), NumericSum(row, Tail(columns)))

\* C10: a derived formula evaluated on a row in which a source column is
\* missing or holds a non-numeric value yields a number, and custom_sum is the
\* sum of the numeric values of its listed columns.
C10_FormulasYieldNumbers ==
  \A i \in 1..Len(data) :
    \A j \in 1..Len(calculatedColumns) :
      LET row == data[i]
          name == calculatedColumns[j].name
          formula == calculatedColumns[j].formula
      IN name \in DOMAIN row =>
           /\ IsFinite(row[name])
           /\ formula.type = "custom_sum" => row[name] = NumericSum(row, formula.columns)

(***************************************************************************)
(* Chart dispatch                                                           *)
(***************************************************************************)
BarTypes == {"stackedBar", "stackedBar100", "groupedBar"}

IsChart(chart) == "backend" \in DOMAIN chart

C11_HorizontalLine ==
  ChartShown /\ config.isHorizontal /\ config.chartType = "line" /\ IsChart(Chart)

\* the selected columns that hold a number in some displayed row
NumericSelected ==
  {column \in Range(config.selectedColumns) :
     \E i \in 1..Len(chartData.rows) : IsFinite(Get(chartData.rows[i], column))}

ScatterPanel == "Scatter Plot Needs 2 Numeric Columns"

\* C12 as written: with chartType scatter and fewer than two selected
\* columns holding numeric data in the displayed rows, renderChart returns
\* the "needs 2 numeric columns" panel and no chart.
C12_ScatterPanelWhenever ==
  (ChartShown /\ config.chartType = "scatter" /\ Cardinality(NumericSelected) < 2)
    => Chart.kind = ScatterPanel /\ ~IsChart(Chart)

\* C12 as the code has it: the same, where prepareChartData returned at least
\* one row and at least one column is selected (the "No Data to Display" and
\* "No Columns Selected" panels come first); with two numeric columns the
\* panel is not returned.
C12_ScatterPanelAfterEmptyStates ==
  (ChartShown /\ config.chartType = "scatter"
     /\ Len(chartData.rows) > 0 /\ Len(config.selectedColumns) > 0)
    => /\ Cardinality(NumericSelected) < 2 => Chart.kind = ScatterPanel /\ ~IsChart(Chart)
       /\ Cardinality(NumericSelected) >= 2 => Chart.kind # ScatterPanel

C12_Witness ==
  /\ ChartShown /\ config.chartType = "scatter"
  /\ Len(chartData.rows) > 0 /\ Len(config.selectedColumns) = 2
  /\ Cardinality(NumericSelected) < 2 /\ Chart.kind = ScatterPanel

\* C13: with chartType composed and a secondary axis chosen, the chart has
\* the chosen column as its bars (left axis) and every other selected column
\* as a line (right axis); with composed and no secondary axis chosen, the
\* chart is the stacked bar chart with all selected columns in one stack,
\* which is not empty. (Stated where renderChart gets past its two empty
\* states.)
C13_ComposedSeries ==
  (ChartShown /\ config.chartType = "composed"
     /\ Len(chartData.rows) > 0 /\ Len(config.selectedColumns) > 0)
    => IF config.secondaryAxis # Nil
       THEN /\ Chart.kind = "composed"
            /\ Chart.bars = <<config.secondaryAxis>>
            /\ Chart.lines = Without(config.selectedColumns, config.secondaryAxis)
       ELSE /\ Chart.kind = "stackedBar"
            /\ Chart.stack = config.selectedColumns
            /\ Chart.stack # <<>>

ChartKinds ==
  availableChartTypes \cup
    {"No Data to Display", "No Columns Selected", ScatterPanel, "No Valid Data Points"}

\* C14: after a load that succeeded, in every configuration the controls
\* reach, prepareChartData returns and renderChart returns a chart or an
\* empty-state panel: neither throws.
C14_RenderNeverThrows ==
  (mounted /\ Len(rawData.rows) > 0) => ~chartData.threw /\ Chart.kind \in ChartKinds

(***************************************************************************)
(* Loads                                                                    *)
(***************************************************************************)
\* C15: a step that loads another dataset (another csvData, or an uploaded
\* file) leaves no derived-column spec and no group-by column, and the
\* filter configs are those built from the new rows.
C15_LoadDiscardsDerivedState ==
  [][(mounted /\ rawData' # rawData /\ Len(rawData'.rows) > 0)
       => /\ calculatedColumns' = <<>>
          /\ config'.groupByColumn = Nil
          /\ config'.filterConfigs = BuildFilterConfigs(rawData'.rows, rawData'.fields)]_vars

Succeeded(load) == load.outcome.result = "ok" /\ Len(load.outcome.parsed.rows) > 0

Failed(load) ==
  \/ load.outcome.result \in {"rejected", "http", "none", "unreadable"}
  \/ load.outcome.result = "ok" /\ Len(load.outcome.parsed.rows) = 0

\* C16: once every load started has completed, all of them with rows, the
\* rows, the available columns and the filter configs are those of the load
\* started last.
C16_LastStartedWins ==
  ( /\ Len(loads) > 0
    /\ \A i \in DOMAIN loads : loads[i].done /\ Succeeded(loads[i]) )
    => LET last == loads[Len(loads)].outcome.parsed
       IN /\ rawData = last
          /\ availableColumns = last.fields
          /\ config.filterConfigs = BuildFilterConfigs(last.rows, last.fields)

\* the load at position i of loads ends in this step
Ends(i) ==
  /\ i \in DOMAIN loads'
  /\ loads'[i].done
  /\ i \in DOMAIN loads => ~loads[i].done

\* C17: the step in which a load fails (fetch rejected, response not ok, no
\* data source, file unreadable, no row parsed) leaves an error message,
\* loading false and the error panel in place of the chart.
C17_FailedLoadShowsError ==
  [][\A i \in DOMAIN loads' :
       (Ends(i) /\ Failed(loads'[i]))
         => error' # Nil /\ ~loading' /\ Len(data') = 0]_vars

(***************************************************************************)
(* Filter configurations                                                    *)
(***************************************************************************)
\* C18: for every column and every update, updateFilterConfig keeps the
\* type tag of the filter; an update whose type differs from the filter's
\* leaves the filter (and the configuration) as it is; an update for a column
\* without a filter leaves the configuration as it is; no other column's
\* filter changes.
C18_TypeTagKept ==
  mounted =>
    \A column \in FilterColumns : \A updates \in FilterUpdates :
      LET next == updateFilterConfig(config, column, updates)
      IN IF column \notin DOMAIN config.filterConfigs THEN next = config
         ELSE /\ DOMAIN next.filterConfigs = DOMAIN config.filterConfigs
              /\ next.filterConfigs[column].type = config.filterConfigs[column].type
              /\ ("type" \in DOMAIN updates
                    /\ updates.type # config.filterConfigs[column].type) => next = config
              /\ \A other \in DOMAIN config.filterConfigs \ {column} :
                    next.filterConfigs[other] = config.filterConfigs[other]

\* an update has been merged into a filter, which kept its tag
C18_Witness ==
  /\ mounted /\ steps > 0
  /\ \E column \in DOMAIN config.filterConfigs :
       LET built == BuildFilterConfigs(rawData.rows, rawData.fields)[column]
       IN /\ config.filterConfigs[column] # built
          /\ config.filterConfigs[column].type = built.type
          /\ config.filterConfigs[column].type = "categorical"
          /\ config.filterConfigs[column].value = Num(1)

CategoricalColumns ==
  {column \in DOMAIN config.filterConfigs : config.filterConfigs[column].type = "categorical"}

SelectedWithinAvailable ==
  \A column \in CategoricalColumns :
    Range(config.filterConfigs[column].selectedValues)
      \subseteq Range(config.filterConfigs[column].availableValues)

AllSelected ==
  \A column \in CategoricalColumns :
    config.filterConfigs[column].selectedValues = config.filterConfigs[column].availableValues

\* C19: in every reachable state the selected values of each categorical
\* filter are among its available values (so All, None and the value
\* checkboxes keep them there), and a step that loads rows leaves every
\* categorical filter with all of its available values selected.
C19_SelectedWithinAvailable ==
  /\ []SelectedWithinAvailable
  /\ [][(rawData' # rawData) => AllSelected']_vars

\* a value checkbox has left a filter with some, not all, of its values
C19_Witness ==
  /\ ChartShown
  /\ \E column \in CategoricalColumns :
       /\ config.filterConfigs[column].selectedValues # <<>>
       /\ Range(config.filterConfigs[column].selectedValues)
            # Range(config.filterConfigs[column].availableValues)

(***************************************************************************)
(* Column names                                                             *)
(***************************************************************************)
\* C20: the name processData derives from a header field is
\* normalizeColumnName of the field; normalizing it again returns it
\* unchanged, and it holds no whitespace, no hyphen and no upper-case letter.
\* The same holds of every selected column.
C20_NormalizeIdempotent ==
  mounted =>
    \A n \in {config.xAxisColumn} \cup Range(config.selectedColumns) :
      /\ n = normalizeColumnName(rawData.fields[1])
      /\ normalizeColumnName(n) = n
      /\ \A c \in Chars(n) : ~IsSpace(c) /\ c # "-" /\ c \notin UpperChars

C20_Witness ==
  mounted /\ rawData.fields = <<"A-b">> /\ config.xAxisColumn = "ab"

(***************************************************************************)
(* Derived columns                                                          *)
(***************************************************************************)
\* C21: with rows loaded and no reprocessing pending, the available columns
\* are the header fields followed by the derived columns now defined, and
\* every row has the keys it gets from exactly those derived columns: each
\* defined column is in every row and no removed column is left in a row.
C21_DerivedColumnsCurrent ==
  (Alive /\ ~loading /\ timers = <<>> /\ Len(rawData.rows) > 0)
    => LET derived == CalcNames(calculatedColumns)
           current == processData(rawData, calculatedColumns, config).data
       IN /\ availableColumns = rawData.fields \o derived
          /\ Len(data) = Len(current)
          /\ \A i \in 1..Len(data) :
                /\ Range(derived) \subseteq DOMAIN data[i]
                /\ DOMAIN data[i] = DOMAIN current[i]

(***************************************************************************)
(* Spreadsheet error markers                                                *)
(***************************************************************************)
\* a text that begins with "#" and has a marker somewhere after it
IsErrorMarker(value) ==
  /\ value.k = "str"
  /\ \E marker \in {"DIV", "VALUE", "N/A", "REF", "NAME", "NUM", "NULL"} :
       \E n \in 1..Len(value.s) : \E m \in (n + 1)..(Len(value.s) + 1) :
         /\ SubSeq(value.s, 1, 1) = "#"
         /\ value.s = SubSeq(value.s, 1, n) \o marker \o SubSeq(value.s, m, Len(value.s))

\* C22: whichever way the rows were loaded (csvData, or an uploaded file), no
\* loaded cell is a text that begins with "#" and contains one of DIV, VALUE,
\* N/A, REF, NAME, NUM, NULL; and after the load of csvData every cell is 0
\* where the parsed cell was such a text and the parsed cell otherwise.
C22_ErrorMarkersStoredAsZero ==
  (mounted /\ Len(rawData.rows) > 0)
    => /\ \A i \in 1..Len(rawData.rows) : \A field \in DOMAIN rawData.rows[i] :
            ~IsErrorMarker(rawData.rows[i][field])
       /\ steps = 0 =>
            /\ Len(rawData.rows) = Len(csvData.rows)
            /\ \A i \in 1..Len(rawData.rows) : \A field \in DOMAIN csvData.rows[i] :
                  rawData.rows[i][field] =
                    IF IsErrorMarker(csvData.rows[i][field]) THEN Num(0)
                    ELSE csvData.rows[i][field]

(***************************************************************************)
(* The initialFilters prop                                                  *)
(***************************************************************************)
\* C23: once the data has loaded, config.filterValues is the initialFilters
\* prop (here ThresholdFilters) until a load replaces the data, and every
\* displayed row has, in each column of the prop, a value that is defined and
\* at least the threshold.
C23_InitialFiltersInEffect ==
  (mounted /\ Len(rawData.rows) > 0)
    => /\ steps = 0 => config.filterValues = ThresholdFilters
       /\ \A i \in 1..Len(chartData.rows) : \A column \in DOMAIN ThresholdFilters :
            JsGte(Get(chartData.rows[i], column), ThresholdFilters[column])

(***************************************************************************)
(* Column classification                                                    *)
(***************************************************************************)
\* the rows whose cell in the column is not empty, and the values there
Filled(field) ==
  {i \in 1..Len(rawData.rows) : NonEmpty(Get(rawData.rows[i], field))}

UniqueCells(field) == {Get(rawData.rows[i], field) : i \in Filled(field)}

NumberCells(field) == {v \in UniqueCells(field) : v.k = "num"}

\* the second and third test of the rule
FewOrRepeated(field) ==
  \/ /\ Cardinality(UniqueCells(field)) < 20
     /\ \E v \in UniqueCells(field) : v.k # "num"
  \/ /\ Cardinality(UniqueCells(field)) > 1
     /\ 10 * Cardinality(UniqueCells(field)) < Cardinality(Filled(field))
     /\ Cardinality(UniqueCells(field)) < 50

\* the filter of a column right after the load, given whether the rule makes
\* it categorical
FilterAsRuled(field, categorical) ==
  LET key == normalizeColumnName(field)
  IN IF categorical
     THEN key \in DOMAIN config.filterConfigs /\ config.filterConfigs[key].type = "categorical"
     ELSE IF NumberCells(field) # {}
     THEN /\ key \in DOMAIN config.filterConfigs
          /\ config.filterConfigs[key].type = "numeric"
          /\ config.filterConfigs[key].min \in NumberCells(field)
          /\ config.filterConfigs[key].max \in NumberCells(field)
          /\ \A v \in NumberCells(field) :
                /\ NumLeq(config.filterConfigs[key].min, v)
                /\ NumLeq(v, config.filterConfigs[key].max)
          /\ config.filterConfigs[key].value = config.filterConfigs[key].min
     ELSE key \notin DOMAIN config.filterConfigs

ChangedFields == {field \in DOMAIN config : config'[field] # config[field]}

NumericSelectedInOrder ==
  SelectSeq(config.selectedColumns, LAMBDA column : column \in NumericSelected)

\* C26: a scatter chart of two or more numeric selected columns has for X the
\* first numeric selected column and for Y the secondary-axis column when that
\* is a numeric selected column and the second numeric one otherwise, X and Y
\* are two different columns, and it plots exactly the displayed rows whose X
\* and Y are both numbers.
C26_ScatterAxesDiffer ==
  (ChartShown /\ config.chartType = "scatter" /\ Len(chartData.rows) > 0
     /\ Cardinality(NumericSelected) >= 2)
    => LET plotted == SelectSeq(chartData.rows, LAMBDA row :
                        IsFinite(Get(row, Chart.x)) /\ IsFinite(Get(row, Chart.y)))
       IN IF plotted = <<>> THEN ~IsChart(Chart)
          ELSE /\ Chart.kind = "scatter"
               /\ Chart.x = NumericSelectedInOrder[1]
               /\ Chart.y = IF config.secondaryAxis \in NumericSelected
                            THEN config.secondaryAxis ELSE NumericSelectedInOrder[2]
               /\ Chart.data = plotted
               /\ Chart.x # Chart.y

(***************************************************************************)
(* The rows shown right after a load                                        *)
(***************************************************************************)
\* every row passes the filters, and the rows returned for the chart are the
\* first displayCount rows of the sorted rows
EveryRowShown ==
  /\ FilteredData = data
  /\ chartData = Returned(SubSeq(sortData(data, config.sortBy, config.xAxisColumn),
                                 1, Min(config.displayCount, Len(data))))

\* C27: right after the load of the rows passed at mount, with the filters
\* the load has set and no group-by column, every loaded row passes the
\* filters, rows with empty cells included, and the first
\* min(displayCount, row count) rows of the sorted rows are displayed.
C27_LoadedRowsAllPass ==
  (mounted /\ steps = 0 /\ ~loading /\ Len(rawData.rows) > 0 /\ config.groupByColumn = Nil)
    => EveryRowShown

(***************************************************************************)
(* The secondary axis and the selection                                     *)
(***************************************************************************)
\* C28: in every state a secondaryAxis that is set is one of the selected
\* columns (so the composed chart has exactly one bar series), also after a
\* column is deselected and after a load or an upload.
C28_SecondaryAxisSelected ==
  config.secondaryAxis # Nil =>
    /\ Includes(config.selectedColumns, config.secondaryAxis)
    /\ (ChartShown /\ Chart.kind = "composed") => Len(Chart.bars) = 1

(***************************************************************************)
(* Settings across a change of the derived columns                          *)
(***************************************************************************)
\* C29: a step that adds or removes a derived column, its reprocessing
\* included, leaves the x-axis column, the sort key and the filter settings
\* as they were, and the selected columns too, apart from the removed column
\* (which may have been the sort key).
C29_DerivedChangeKeepsSettings ==
  [][(calculatedColumns' # calculatedColumns /\ rawData' = rawData) =>
       LET removed == Range(CalcNames(calculatedColumns)) \ Range(CalcNames(calculatedColumns'))
       IN /\ config'.selectedColumns =
               SelectSeq(config.selectedColumns, LAMBDA column : column \notin removed)
          /\ config'.xAxisColumn = config.xAxisColumn
          /\ config'.sortBy = config.sortBy \/ config.sortBy \in removed
          /\ config'.filterConfigs = config.filterConfigs
          /\ config'.filterValues = config.filterValues
    ]_vars

(***************************************************************************)
(* Loads end                                                                *)
(***************************************************************************)
\* the loading panel is gone and there are rows or an error message
LoadEnded == ~loading /\ (Len(data) > 0 \/ error # Nil)

\* C30: with every started fetch and file read completing, a component that
\* is loading always reaches loading = FALSE with rows present or an error
\* message set, and whenever it is not loading it has rows or an error
\* message.
C30_LoadingEnds ==
  /\ loading ~> LoadEnded
  /\ [](~loading => LoadEnded)

\* a fetch was started while a file read was pending, both have completed,
\* and the component is not loading
C30_Witness ==
  /\ ~loading
  /\ \E i, j \in DOMAIN loads :
       /\ i < j
       /\ loads[i].kind = "file" /\ loads[j].kind = "fetch"
       /\ loads[i].done /\ loads[j].done
       /\ loads[j].outcome.result # "none"

====
